---- MODULE Spec2Model ----
(***************************************************************************)
(* Model of the Spectral-GUI measurement scheduler and device session.     *)
(*                                                                         *)
(*   src/gui/main_window.py        SpectralMeasurementGUI (control thread, *)
(*                                 worker thread, polling loop)            *)
(*   src/core/device_interface.py  SpectralDevice (status, errors, events) *)
(*   src/devices/device_template.py DeviceTemplate                         *)
(*   src/main.py                   MockDevice                              *)
(*                                                                         *)
(* The control thread is the Tk event loop: its handlers run one at a      *)
(* time.  A handler that opens a modal dialog runs a nested event loop in  *)
(* which timer callbacks fire.  Worker threads run concurrently with the   *)
(* control thread and interleave with it at every access to shared state.  *)
(*                                                                         *)
(* Devices: MockDevice and DeviceTemplate are modelled from their code;    *)
(* the hardware calls that DeviceTemplate marks TODO inside its try blocks *)
(* either complete or raise.  The third kind, "external", is any other     *)
(* implementation of SpectralDevice: it keeps DeviceTemplate's status      *)
(* protocol, and its configure and measure may return what the abstract    *)
(* methods allow or raise into the caller.                                 *)
(*                                                                         *)
(*   src/gui/plot_window.py        PlotWindow (blitting cache)             *)
(*                                                                         *)
(* The plot window is driven on its own (SpecPlot); the scheduler keeps of *)
(* it only whether the handler of a result raises.                         *)
(***************************************************************************)
EXTENDS Integers, Sequences, FiniteSets, TLC

\* ------------------------------------------------------------------------
\* Bounds
\* ------------------------------------------------------------------------
MaxRequests == 2
MaxSaves == 1
MaxHistory == 3
MaxListeners == 2
MaxZoom == 1
MaxOverlays == 1
MaxLevel == 2
MaxLen == 3
MaxValue == 2
Below == 10
Above == 10

\* ------------------------------------------------------------------------
\* Enumerations
\* ------------------------------------------------------------------------
DISCONNECTED == "disconnected"
CONNECTING == "connecting"
CONNECTED == "connected"
MEASURING == "measuring"
ERROR == "error"
BUSY == "busy"

DeviceStatus == {DISCONNECTED, CONNECTING, CONNECTED, MEASURING, ERROR, BUSY}

MeasurementType == {"radiance", "irradiance", "transmittance", "reflectance", "absorbance", "raw"}

\* The device classes: MockDevice, DeviceTemplate, and a device known only
\* through the capability contract (OSpRadDevice is not part of the sources).
SrcDeviceKinds == {"mock", "template"}
DeviceKinds == SrcDeviceKinds \cup {"external"}

\* capabilities.measurement_types, in declaration order
CapabilityTypes(kind) ==
    IF kind = "mock" THEN <<"radiance", "irradiance">> ELSE <<"irradiance", "radiance">>

Range(s) == {s[i] : i \in 1..Len(s)}

Requests == 1..MaxRequests

VARIABLES
    devKind,            \* which device class the GUI was built on
    connected,          \* device._connected
    status,             \* device._status
    last_error,         \* device._last_error
    callbacks,          \* device._callbacks: event name -> listeners, in order
    is_measuring,       \* gui.is_measuring
    abort_requested,    \* gui.abort_requested
    measurement_type,   \* gui.measurement_type (StringVar)
    measurement_queue,  \* gui.measurement_queue
    current_result,     \* gui.current_result
    workers,            \* one entry per worker thread ever started
    nextReq,            \* number of worker threads started so far
    ctl,                \* position of the control thread
    pollArmed,          \* root.after(100, _process_queue) is pending
    auto_repeat_active, \* gui.auto_repeat_active
    auto_repeat_job,    \* gui.auto_repeat_job is pending
    auto_repeat_types,  \* the types whose auto_repeat_types[..] is true
    pendingSaves,       \* pending root.after(2000, _save_measurement) timers,
                        \* each with the request it was scheduled after
    measurement_history,\* gui.measurement_history
    saved_labels,       \* gui.saved_labels
    data_tree,          \* number of rows of gui.data_tree
    save_label,         \* gui.save_label (StringVar)
    selection,          \* rows selected in a delete that awaits its answer
    main_line,          \* plot.main_line is not None
    background,         \* plot.background: the limits of the picture it holds
    canvas,             \* the limits of the picture the canvas shows
    canvasLine,         \* the picture on the canvas contains the data line
    backgroundLine,     \* the picture plot.background holds contains it
    drawPending,        \* a canvas.draw_idle() has not run yet
    xlim,               \* ax x limits, as zoom steps from the full view
    ylim,               \* ax y limits, as the level they were scaled to
    autoscale,          \* plot.autoscale_var
    show_spectrum_colors, \* plot.show_spectrum_colors
    overlay_spectra,    \* plot.overlay_spectra / overlay_lines: name -> data
    current_data,       \* plot.current_data
    dirty,              \* limits, overlays or gradient changed since the
                        \* background was captured
    plotLog,            \* renderer calls made by the last step, in order
    notified,           \* listener invocations made by the last step
    handled,            \* outcomes dequeued by the last step, in order
    last                \* the operation performed by the last step

devVars == <<devKind, connected, status, last_error, callbacks>>
schedVars == <<is_measuring, abort_requested, measurement_type, measurement_queue,
               current_result, workers, nextReq>>
loopVars == <<ctl, pollArmed>>
autoVars == <<auto_repeat_active, auto_repeat_job, auto_repeat_types, pendingSaves>>
dataVars == <<measurement_history, saved_labels, data_tree, save_label, selection>>
plotVars == <<main_line, background, canvas, canvasLine, backgroundLine, drawPending,
              xlim, ylim, autoscale, show_spectrum_colors, overlay_spectra,
              current_data, dirty, plotLog>>
vars == <<devVars, schedVars, loopVars, autoVars, dataVars, plotVars,
          notified, handled, last>>

\* ------------------------------------------------------------------------
\* Values
\* ------------------------------------------------------------------------
NoResult == [mtype |-> "none", req |-> 0, wf |-> TRUE]

\* A MeasurementResult; req stands for the object's identity, wf says
\* whether len(wavelengths) = len(spectral_data) and both are non-empty.
Result(t, r, wf) == [mtype |-> t, req |-> r, wf |-> wf]

\* A queue entry (status, data); req is the request the entry belongs to.
Outcome(kind, msg, res, r) == [kind |-> kind, msg |-> msg, result |-> res, req |-> r]

IdleWorker == [pc |-> "unstarted", mtype |-> "none", sawAbort |-> FALSE, called |-> FALSE,
               ret |-> "none", wf |-> TRUE, exc |-> "",
               out |-> "none", outmsg |-> "",
               delivered |-> FALSE, abortEarly |-> FALSE, abortLate |-> FALSE]

\* A worker whose outcome has been dequeued: its thread is gone
DeliveredWorker == [IdleWorker EXCEPT !.pc = "done", !.delivered = TRUE]

Op(name, r) == [op |-> name, req |-> r]

\* A call of a device method by a client, with the argument it was given
\* (set_error) or the status it found (clear_error)
Call(name, arg) == [op |-> name, req |-> 0, arg |-> arg]

\* ------------------------------------------------------------------------
\* SpectralDevice: event registry, status setter, set_error
\* ------------------------------------------------------------------------
\* The events of the registry
Events == {"status_changed", "measurement_complete", "error"}

\* device._callbacks after SpectralDevice.__init__
NoCallbacks == [e \in Events |-> <<>>]

\* device._callbacks after SpectralMeasurementGUI.__init__
GuiCallbacks ==
    [NoCallbacks EXCEPT !["status_changed"] = <<"_on_device_status_changed">>,
                        !["error"] = <<"_on_device_error">>]

\* The listeners a client of the device registers besides the GUI's: one
\* that returns and one that raises an Exception
ClientListeners == {"quiet", "raising"}

\* Whether a call of the listener raises
ListenerRaises(listener) == listener = "raising"

\* The calls into the UI toolkit a listener makes: both listeners of the GUI
\* call self.root.after(0, ...)
ToolkitCalls(listener) ==
    IF listener \in {"_on_device_status_changed", "_on_device_error"}
    THEN <<"root.after">>
    ELSE <<>>

\* `if event in self._callbacks`: the listeners of the event, in order
Callbacks(event) == IF event \in DOMAIN callbacks THEN callbacks[event] ELSE <<>>

\* One call callback(data) made by _notify on the given thread; escaped says
\* whether an exception of the listener left _notify
Invocation(event, listener, data, thread, escaped) ==
    [event |-> event, listener |-> listener, data |-> data, thread |-> thread,
     raised |-> ListenerRaises(listener), escaped |-> escaped]

\* Mutant: _notify without its try/except: the first listener that raises
\* ends the dispatch and its exception leaves _notify
NotifyUnguarded(event, data, thread) ==
    LET cbs == Callbacks(event)
        stop == IF \E i \in 1..Len(cbs) : ListenerRaises(cbs[i])
                THEN CHOOSE i \in 1..Len(cbs) :
                        /\ ListenerRaises(cbs[i])
                        /\ \A j \in 1..(i - 1) : ~ListenerRaises(cbs[j])
                ELSE Len(cbs)
    IN  [i \in 1..stop |->
            Invocation(event, cbs[i], data, thread, ListenerRaises(cbs[i]))]

\* SpectralDevice._notify: the invocations it makes, in order; the exception
\* of a listener is caught and printed
Notify(event, data, thread) ==
    [i \in 1..Len(Callbacks(event)) |->
        Invocation(event, Callbacks(event)[i], data, thread, FALSE)]

\* SpectralDevice.status setter: notifies only when the value changes
StatusSetterNotes(old_status, value, thread) ==
    IF old_status # value THEN Notify("status_changed", value, thread) ELSE <<>>

\* Mutant: set_error does not fire the error event
SetErrorNotesSilent(message, thread) == <<>>

\* SpectralDevice.set_error: the notifications it makes
SetErrorNotes(message, thread) == Notify("error", message, thread)

\* ------------------------------------------------------------------------
\* Initial state: main() has connected the device and built the GUI
\* ------------------------------------------------------------------------
\* Axis limits: x as zoom steps, y as the level of the data they fit
Limits(x, y) == [x |-> x, y |-> y]

\* plot.background before the first capture
NoBackground == [x |-> 0, y |-> -1]

\* An empty data list
NoData == [level |-> 0, finite |-> TRUE]

\* PlotWindow.__init__ and _create_plot: empty axes drawn once
InitPlotWindow ==
    /\ main_line = FALSE
    /\ background = NoBackground
    /\ canvas = Limits(0, 0)
    /\ canvasLine = FALSE
    /\ backgroundLine = FALSE
    /\ drawPending = FALSE
    /\ xlim = 0
    /\ ylim = 0
    /\ autoscale = TRUE
    /\ show_spectrum_colors = TRUE
    /\ overlay_spectra = <<>>
    /\ current_data = NoData
    /\ dirty = FALSE
    /\ plotLog = <<>>

\* SpectralMeasurementGUI.__init__, apart from the device
InitGui ==
    /\ InitPlotWindow
    /\ is_measuring = FALSE
    /\ abort_requested = FALSE
    /\ measurement_type = CapabilityTypes(devKind)[1]
    /\ measurement_queue = <<>>
    /\ current_result = NoResult
    /\ workers = [r \in Requests |-> IdleWorker]
    /\ nextReq = 0
    /\ ctl = "idle"
    /\ pollArmed = TRUE
    /\ auto_repeat_active = FALSE
    /\ auto_repeat_job = FALSE
    /\ auto_repeat_types = {}
    /\ pendingSaves = <<>>
    /\ measurement_history = <<>>
    /\ saved_labels = <<>>
    /\ data_tree = 0
    /\ save_label = ""
    /\ selection = {}
    /\ notified = <<>>
    /\ handled = <<>>
    /\ last = Op("init", 0)

InitCommon ==
    /\ connected = TRUE
    /\ status = CONNECTED
    /\ last_error = ""
    /\ callbacks = GuiCallbacks
    /\ InitGui

\* A device just constructed, before connect() and before any listener is
\* registered
InitDevice ==
    /\ devKind \in SrcDeviceKinds
    /\ connected = FALSE
    /\ status = DISCONNECTED
    /\ last_error = ""
    /\ callbacks = NoCallbacks
    /\ InitGui

Init ==
    /\ devKind \in SrcDeviceKinds
    /\ InitCommon

InitAny ==
    /\ devKind \in DeviceKinds
    /\ InitCommon

\* ------------------------------------------------------------------------
\* Requests: _measure, _quick_measure, _start_measurement_thread
\* ------------------------------------------------------------------------
\* Mutant: the guard is missing
BusyNever(measuring) == FALSE

\* The guard of _measure and _quick_measure: `if self.is_measuring: return`
Busy(measuring) == measuring

\* Mutant: the abort flag is left as the previous request left it
StartMeasurementThreadKeepsFlag(t) ==
    /\ nextReq < MaxRequests
    /\ is_measuring' = TRUE
    /\ UNCHANGED abort_requested
    /\ nextReq' = nextReq + 1
    /\ workers' = [workers EXCEPT ![nextReq + 1] =
                        [IdleWorker EXCEPT !.pc = "configure", !.mtype = t]]
    /\ UNCHANGED <<measurement_queue, current_result>>

\* _start_measurement_thread: mark measuring, clear the abort flag, start
\* one worker thread for the request
StartMeasurementThread(t) ==
    /\ nextReq < MaxRequests
    /\ is_measuring' = TRUE
    /\ abort_requested' = FALSE
    /\ nextReq' = nextReq + 1
    /\ workers' = [workers EXCEPT ![nextReq + 1] =
                        [IdleWorker EXCEPT !.pc = "configure", !.mtype = t]]
    /\ UNCHANGED <<measurement_queue, current_result>>

\* The control thread can run a handler for a user event
UserReady == ctl = "idle"

\* The control thread can run a timer callback (also inside a modal dialog)
TimerReady == ctl \in {"idle", "dialog", "confirm_delete", "confirm_clear"}

\* _measure (button, F5, Ctrl+M)
Measure ==
    /\ UserReady
    /\ IF Busy(is_measuring)
       THEN /\ UNCHANGED schedVars
            /\ last' = Op("measure_rejected", 0)
       ELSE /\ StartMeasurementThread(measurement_type)
            /\ UNCHANGED measurement_type
            /\ last' = Op("measure", nextReq + 1)
    /\ notified' = <<>>
    /\ handled' = <<>>
    /\ UNCHANGED <<devVars, loopVars, autoVars, dataVars, plotVars>>

\* Mutant: the selected type is set before the guard is tested
QuickMeasureBodySetsTypeFirst(t) ==
    /\ measurement_type' = t
    /\ IF Busy(is_measuring)
       THEN UNCHANGED <<is_measuring, abort_requested, measurement_queue,
                        current_result, workers, nextReq>>
       ELSE StartMeasurementThread(t)

\* The body of _quick_measure, as run by a key binding or by a cycle
QuickMeasureBody(t) ==
    IF Busy(is_measuring)
    THEN UNCHANGED schedVars
    ELSE /\ measurement_type' = t
         /\ StartMeasurementThread(t)

\* _quick_measure (Ctrl+1 .. Ctrl+9)
QuickMeasure ==
    /\ UserReady
    /\ \E t \in Range(CapabilityTypes(devKind)) :
          /\ QuickMeasureBody(t)
          /\ last' = IF Busy(is_measuring) THEN Op("quick_rejected", 0)
                      ELSE Op("quick_measure", nextReq + 1)
    /\ notified' = <<>>
    /\ handled' = <<>>
    /\ UNCHANGED <<devVars, loopVars, autoVars, dataVars, plotVars>>

\* The worker of the request that is started and whose outcome has not
\* been dequeued
Outstanding(r) == workers[r].pc # "unstarted" /\ ~workers[r].delivered

\* The worker thread of r is alive and has not yet put its outcome
Running(r) == workers[r].pc \notin {"unstarted", "done"}

\* Mutant: an abort also releases the measuring flag
AbortMeasurementClearsFlag ==
    /\ UserReady
    /\ IF is_measuring
       THEN /\ abort_requested' = TRUE
            /\ is_measuring' = FALSE
            /\ last' = Op("abort", 0)
       ELSE /\ UNCHANGED <<abort_requested, is_measuring>>
            /\ last' = Op("abort_ignored", 0)
    /\ notified' = <<>>
    /\ handled' = <<>>
    /\ UNCHANGED <<workers, measurement_type, measurement_queue, current_result, nextReq>>
    /\ UNCHANGED <<devVars, loopVars, autoVars, dataVars, plotVars>>

\* _abort_measurement (Escape)
AbortMeasurement ==
    /\ UserReady
    /\ IF is_measuring
       THEN /\ abort_requested' = TRUE
            /\ workers' = [r \in Requests |->
                    IF Running(r)
                    THEN [workers[r] EXCEPT
                            !.abortEarly = @ \/ ~workers[r].called,
                            !.abortLate = @ \/ workers[r].called]
                    ELSE workers[r]]
            /\ last' = Op("abort", 0)
       ELSE /\ UNCHANGED <<abort_requested, workers>>
            /\ last' = Op("abort_ignored", 0)
    /\ notified' = <<>>
    /\ handled' = <<>>
    /\ UNCHANGED <<is_measuring, measurement_type, measurement_queue, current_result, nextReq>>
    /\ UNCHANGED <<devVars, loopVars, autoVars, dataVars, plotVars>>

\* ------------------------------------------------------------------------
\* The worker thread: _measurement_thread, with the device calls it makes.
\* The hardware calls marked TODO in DeviceTemplate either complete or raise.
\* ------------------------------------------------------------------------
\* MeasurementType(measurement_type): raises ValueError for an unknown name
ConversionRaises(name) == name \notin MeasurementType

\* MockDevice.configure stores the settings and returns True
MockConfigure == {"true"}

\* DeviceTemplate.configure returns True, or catches the exception of the
\* hardware call, calls set_error and returns False
TemplateConfigure == {"true", "failed"}

\* SpectralDevice.configure as the contract states it: True, False, or an
\* exception that reaches the caller
ContractConfigure == {"true", "false", "raise"}

\* What self.device.configure(settings) can do, by device class
ConfigureOutcomes(kind) ==
    CASE kind = "mock" -> MockConfigure
      [] kind = "template" -> TemplateConfigure
      [] OTHER -> ContractConfigure

\* MockDevice.measure always builds a result
MockAcquire == {"result"}

\* DeviceTemplate.measure builds a result, or catches the exception of the
\* hardware call, calls set_error and returns None
TemplateAcquire == {"result", "failed"}

\* SpectralDevice.measure as the contract states it: a result (which nothing
\* validates), None on error, or an exception that reaches the caller
ContractAcquire == {"result", "malformed", "failed", "raise"}

\* What the acquisition inside self.device.measure(mtype) can do
AcquireOutcomes(kind) ==
    CASE kind = "mock" -> MockAcquire
      [] kind = "template" -> TemplateAcquire
      [] OTHER -> ContractAcquire

\* Mutant: a configure that does not return True ends the request
WorkerConfigureChecked(r) ==
    /\ workers[r].pc = "configure"
    /\ \E o \in ConfigureOutcomes(devKind) :
         /\ IF o = "failed"
            THEN /\ last_error' = "Configure failed: e"
                 /\ status' = ERROR
                 /\ notified' = SetErrorNotes("Configure failed: e", "worker")
            ELSE /\ UNCHANGED <<last_error, status>>
                 /\ notified' = <<>>
         /\ workers' = [workers EXCEPT ![r] =
                IF o = "raise"
                THEN [@ EXCEPT !.pc = "returned", !.ret = "raised", !.exc = "e_configure"]
                ELSE IF o = "true"
                THEN [@ EXCEPT !.pc = "check_abort"]
                ELSE [@ EXCEPT !.pc = "returned", !.ret = "None"]]
    /\ handled' = <<>>
    /\ last' = Op("configure", r)
    /\ UNCHANGED <<devKind, callbacks, connected>>
    /\ UNCHANGED <<is_measuring, abort_requested, measurement_type, measurement_queue,
                   current_result, nextReq>>
    /\ UNCHANGED <<loopVars, autoVars, dataVars, plotVars>>

\* self.device.configure(settings); its return value is not read
WorkerConfigure(r) ==
    /\ workers[r].pc = "configure"
    /\ \E o \in ConfigureOutcomes(devKind) :
         /\ IF o = "failed"
            THEN \* DeviceTemplate.configure: set_error(f"Configure failed: {e}")
                 /\ last_error' = "Configure failed: e"
                 /\ status' = ERROR
                 /\ notified' = SetErrorNotes("Configure failed: e", "worker")
            ELSE /\ UNCHANGED <<last_error, status>>
                 /\ notified' = <<>>
         /\ workers' = [workers EXCEPT ![r] =
                IF o = "raise"
                THEN [@ EXCEPT !.pc = "returned", !.ret = "raised", !.exc = "e_configure"]
                ELSE [@ EXCEPT !.pc = "check_abort"]]
    /\ handled' = <<>>
    /\ last' = Op("configure", r)
    /\ UNCHANGED <<devKind, callbacks, connected>>
    /\ UNCHANGED <<is_measuring, abort_requested, measurement_type, measurement_queue,
                   current_result, nextReq>>
    /\ UNCHANGED <<loopVars, autoVars, dataVars, plotVars>>

\* The test `if self.abort_requested` made by the worker after configure
AbortSeen(flag) == flag

\* if self.abort_requested: put(('aborted', None)); return
WorkerCheckAbort(r) ==
    /\ workers[r].pc = "check_abort"
    /\ IF AbortSeen(abort_requested)
       THEN /\ measurement_queue' = Append(measurement_queue, Outcome("aborted", "", NoResult, r))
            /\ workers' = [workers EXCEPT ![r] = [@ EXCEPT !.pc = "done", !.sawAbort = TRUE, !.out = "aborted"]]
       ELSE /\ workers' = [workers EXCEPT ![r] = [@ EXCEPT !.pc = "call_measure"]]
            /\ UNCHANGED measurement_queue
    /\ notified' = <<>>
    /\ handled' = <<>>
    /\ last' = Op("check_abort", r)
    /\ UNCHANGED <<is_measuring, abort_requested, measurement_type, current_result, nextReq>>
    /\ UNCHANGED <<devVars, loopVars, autoVars, dataVars, plotVars>>

\* Whether measure() tests is_connected() before it sets MEASURING
ChecksConnection(kind) == kind # "mock"

\* mtype = MeasurementType(measurement_type); self.device.measure(mtype): entry
WorkerCallMeasure(r) ==
    /\ workers[r].pc = "call_measure"
    /\ IF ConversionRaises(workers[r].mtype)
       THEN /\ workers' = [workers EXCEPT ![r] =
                    [@ EXCEPT !.pc = "returned", !.ret = "raised", !.exc = "ValueError"]]
            /\ UNCHANGED <<status, last_error>>
            /\ notified' = <<>>
       ELSE IF ~ChecksConnection(devKind)
       THEN \* MockDevice.measure: self.status = MEASURING
            /\ workers' = [workers EXCEPT ![r] = [@ EXCEPT !.pc = "acquiring", !.called = TRUE]]
            /\ status' = MEASURING
            /\ notified' = StatusSetterNotes(status, MEASURING, "worker")
            /\ UNCHANGED last_error
       ELSE IF ~connected
       THEN \* DeviceTemplate.measure: set_error("Device not connected"); return None
            /\ workers' = [workers EXCEPT ![r] =
                    [@ EXCEPT !.pc = "returned", !.called = TRUE, !.ret = "None"]]
            /\ last_error' = "Device not connected"
            /\ status' = ERROR
            /\ notified' = SetErrorNotes("Device not connected", "worker")
       ELSE /\ workers' = [workers EXCEPT ![r] = [@ EXCEPT !.pc = "set_measuring", !.called = TRUE]]
            /\ UNCHANGED <<status, last_error>>
            /\ notified' = <<>>
    /\ handled' = <<>>
    /\ last' = Op("call_measure", r)
    /\ UNCHANGED <<devKind, callbacks, connected>>
    /\ UNCHANGED <<is_measuring, abort_requested, measurement_type, measurement_queue,
                   current_result, nextReq>>
    /\ UNCHANGED <<loopVars, autoVars, dataVars, plotVars>>

\* DeviceTemplate.measure: self.status = DeviceStatus.MEASURING
WorkerSetMeasuring(r) ==
    /\ workers[r].pc = "set_measuring"
    /\ workers' = [workers EXCEPT ![r] = [@ EXCEPT !.pc = "acquiring"]]
    /\ status' = MEASURING
    /\ notified' = StatusSetterNotes(status, MEASURING, "worker")
    /\ handled' = <<>>
    /\ last' = Op("set_measuring", r)
    /\ UNCHANGED <<devKind, callbacks, connected, last_error>>
    /\ UNCHANGED <<is_measuring, abort_requested, measurement_type, measurement_queue,
                   current_result, nextReq>>
    /\ UNCHANGED <<loopVars, autoVars, dataVars, plotVars>>

\* The end of device.measure: the acquisition completes, fails or raises
WorkerMeasureReturn(r) ==
    /\ workers[r].pc = "acquiring"
    /\ \E o \in AcquireOutcomes(devKind) :
         CASE o \in {"result", "malformed"} ->
                \* self.status = DeviceStatus.CONNECTED; return result
                /\ status' = CONNECTED
                /\ notified' = StatusSetterNotes(status, CONNECTED, "worker")
                /\ UNCHANGED last_error
                /\ workers' = [workers EXCEPT ![r] =
                        [@ EXCEPT !.pc = "returned", !.ret = "result", !.wf = (o = "result")]]
           [] o = "failed" ->
                \* set_error(f"Measurement failed: {e}"); self.status = ERROR; return None
                /\ last_error' = "Measurement failed: e"
                /\ status' = ERROR
                /\ notified' = SetErrorNotes("Measurement failed: e", "worker")
                                \o StatusSetterNotes(ERROR, ERROR, "worker")
                /\ workers' = [workers EXCEPT ![r] = [@ EXCEPT !.pc = "returned", !.ret = "None"]]
           [] o = "raise" ->
                /\ UNCHANGED <<status, last_error>>
                /\ notified' = <<>>
                /\ workers' = [workers EXCEPT ![r] =
                        [@ EXCEPT !.pc = "returned", !.ret = "raised", !.exc = "e_measure"]]
    /\ handled' = <<>>
    /\ last' = Op("measure_return", r)
    /\ UNCHANGED <<devKind, callbacks, connected>>
    /\ UNCHANGED <<is_measuring, abort_requested, measurement_type, measurement_queue,
                   current_result, nextReq>>
    /\ UNCHANGED <<loopVars, autoVars, dataVars, plotVars>>

\* Mutant: the test `if result is None` is missing
PostedOutcomeNoNoneTest(w, r) ==
    CASE w.ret = "raised" -> Outcome("error", w.exc, NoResult, r)
      [] w.ret = "None" -> Outcome("success", "", NoResult, r)
      [] OTHER -> Outcome("success", "", Result(w.mtype, r, w.wf), r)

\* Mutant: the abort flag is tested again after measure has returned
PostedOutcomeRetestsAbort(w, r) ==
    IF abort_requested
    THEN Outcome("aborted", "", NoResult, r)
    ELSE CASE w.ret = "raised" -> Outcome("error", w.exc, NoResult, r)
           [] w.ret = "None" -> Outcome("error", "Measurement failed", NoResult, r)
           [] OTHER -> Outcome("success", "", Result(w.mtype, r, w.wf), r)

\* The queue entry the worker puts once configure/measure has returned or
\* raised: lines 524-530 of _measurement_thread
PostedOutcome(w, r) ==
    CASE w.ret = "raised" -> Outcome("error", w.exc, NoResult, r)
      [] w.ret = "None" -> Outcome("error", "Measurement failed", NoResult, r)
      [] OTHER -> Outcome("success", "", Result(w.mtype, r, w.wf), r)

\* Mutant: the worker puts its entry a second time when it ends
PutsTwice(entry) == <<entry, entry>>

\* The puts a worker makes for one returned or raised call
Puts(entry) == <<entry>>

\* self.measurement_queue.put(...) after the device calls
WorkerPost(r) ==
    /\ workers[r].pc = "returned"
    /\ LET e == PostedOutcome(workers[r], r) IN
         /\ measurement_queue' = measurement_queue \o Puts(e)
         /\ workers' = [workers EXCEPT ![r] =
                [@ EXCEPT !.pc = "done", !.out = e.kind, !.outmsg = e.msg]]
    /\ notified' = <<>>
    /\ handled' = <<>>
    /\ last' = Op("post", r)
    /\ UNCHANGED <<is_measuring, abort_requested, measurement_type, current_result, nextReq>>
    /\ UNCHANGED <<devVars, loopVars, autoVars, dataVars, plotVars>>

\* ------------------------------------------------------------------------
\* _reconnect_device: device.disconnect() then device.connect()
\* ------------------------------------------------------------------------
\* MockDevice.connect always succeeds
MockConnect == {"true"}

\* DeviceTemplate.connect succeeds, or catches the exception of the hardware
\* call, calls set_error and returns False
TemplateConnect == {"true", "failed"}

\* What the connection attempt of self.device.connect() can do
ConnectOutcomes(kind) == IF kind = "mock" THEN MockConnect ELSE TemplateConnect

\* Whether connect() sets CONNECTING before it attempts the connection
SetsConnecting(kind) == kind # "mock"

\* device.disconnect(): _connected = False; status = DISCONNECTED
ReconnectDisconnect ==
    /\ UserReady
    /\ connected' = FALSE
    /\ status' = DISCONNECTED
    /\ notified' = StatusSetterNotes(status, DISCONNECTED, "control")
    /\ ctl' = "reconnect"
    /\ handled' = <<>>
    /\ last' = Op("disconnect", 0)
    /\ UNCHANGED <<devKind, callbacks, last_error, pollArmed>>
    /\ UNCHANGED <<schedVars, autoVars, dataVars, plotVars>>

\* device.connect(): MockDevice.connect in one piece, DeviceTemplate.connect
\* up to self.status = CONNECTING
ReconnectConnect ==
    /\ ctl = "reconnect"
    /\ IF SetsConnecting(devKind)
       THEN /\ status' = CONNECTING
            /\ notified' = StatusSetterNotes(status, CONNECTING, "control")
            /\ ctl' = "connect"
            /\ last' = Op("connect_begin", 0)
            /\ UNCHANGED connected
       ELSE /\ connected' = TRUE
            /\ status' = CONNECTED
            /\ notified' = StatusSetterNotes(status, CONNECTED, "control")
            /\ ctl' = "idle"
            /\ last' = Op("connect_true", 0)
    /\ handled' = <<>>
    /\ UNCHANGED <<devKind, callbacks, last_error, pollArmed>>
    /\ UNCHANGED <<schedVars, autoVars, dataVars, plotVars>>

\* DeviceTemplate.connect after CONNECTING: the attempt, then CONNECTED or
\* set_error(f"Connection failed: {e}")
ConnectFinish ==
    /\ ctl = "connect"
    /\ \E o \in ConnectOutcomes(devKind) :
         IF o = "true"
         THEN /\ connected' = TRUE
              /\ status' = CONNECTED
              /\ notified' = StatusSetterNotes(status, CONNECTED, "control")
              /\ last' = Op("connect_true", 0)
              /\ UNCHANGED last_error
         ELSE /\ last_error' = "Connection failed: e"
              /\ status' = ERROR
              /\ notified' = SetErrorNotes("Connection failed: e", "control")
              /\ last' = Op("connect_false", 0)
              /\ UNCHANGED connected
    /\ ctl' = "idle"
    /\ handled' = <<>>
    /\ UNCHANGED <<devKind, callbacks, pollArmed>>
    /\ UNCHANGED <<schedVars, autoVars, dataVars, plotVars>>

\* ------------------------------------------------------------------------
\* The polling loop: _process_queue, _on_measurement_complete,
\* _on_measurement_error
\* ------------------------------------------------------------------------
\* _on_measurement_complete raises when the result cannot be displayed or
\* plotted (ax.plot of arrays of different lengths)
HandlerRaises(result) == ~result.wf

\* How many entries the loop `while True: get_nowait()` takes when the tick
\* starts: all of them
DrainLimit(q) == Len(q)

\* Mutant: a tick handles one outcome and does not look at the queue again
ResumeLimitNone(q) == 0

\* How many entries the loop takes when it goes on after a handler that
\* opened a dialog has returned: all that are then in the queue
ResumeLimit(q) == Len(q)

\* The loop of _process_queue on queue q with current result cur, taking at
\* most n entries.  It ends when the queue is empty (Empty is caught), when
\* _on_measurement_error opens its modal dialog, or when a handler raises.
RECURSIVE Drain(_, _, _)
Drain(q, cur, n) ==
    IF q = <<>> \/ n = 0
    THEN [queue |-> q, cur |-> cur, stop |-> "empty", handled |-> <<>>]
    ELSE LET h == Head(q) IN
         CASE h.kind = "success" ->
                IF HandlerRaises(h.result)
                THEN [queue |-> Tail(q), cur |-> h.result, stop |-> "raised", handled |-> <<h>>]
                ELSE LET d == Drain(Tail(q), h.result, n - 1)
                     IN  [d EXCEPT !.handled = <<h>> \o @]
           [] h.kind = "error" ->
                [queue |-> Tail(q), cur |-> cur, stop |-> "dialog", handled |-> <<h>>]
           [] OTHER ->
                LET d == Drain(Tail(q), cur, n - 1)
                IN  [d EXCEPT !.handled = <<h>> \o @]

\* Mutant: a success outcome does not replace the current result
AfterDrainKeepsResult(d) ==
    /\ measurement_queue' = d.queue
    /\ UNCHANGED current_result
    /\ handled' = d.handled
    /\ is_measuring' = IF d.handled = <<>> THEN is_measuring ELSE FALSE
    /\ workers' = [r \in Requests |->
            IF \E i \in 1..Len(d.handled) : d.handled[i].req = r
            THEN DeliveredWorker
            ELSE workers[r]]
    /\ ctl' = IF d.stop = "dialog" THEN "dialog" ELSE "idle"
    /\ pollArmed' = (d.stop = "empty")

\* The state after a pass d of the loop: is_measuring is cleared at every
\* dequeue, and root.after(100, ...) is reached only when the loop ends on
\* Empty
AfterDrain(d) ==
    /\ measurement_queue' = d.queue
    /\ current_result' = d.cur
    /\ handled' = d.handled
    /\ is_measuring' = IF d.handled = <<>> THEN is_measuring ELSE FALSE
    /\ workers' = [r \in Requests |->
            IF \E i \in 1..Len(d.handled) : d.handled[i].req = r
            THEN DeliveredWorker
            ELSE workers[r]]
    /\ ctl' = IF d.stop = "dialog" THEN "dialog" ELSE "idle"
    /\ pollArmed' = (d.stop = "empty")

\* _process_queue, fired by its after(100) timer
ProcessQueue ==
    /\ ctl = "idle"
    /\ pollArmed
    /\ AfterDrain(Drain(measurement_queue, current_result, DrainLimit(measurement_queue)))
    /\ notified' = <<>>
    /\ last' = Op("tick", 0)
    /\ UNCHANGED <<abort_requested, measurement_type, nextReq>>
    /\ UNCHANGED <<devVars, autoVars, dataVars, plotVars>>

\* messagebox.showerror returns inside _on_measurement_error: the loop of
\* _process_queue goes on
DialogClose ==
    /\ ctl = "dialog"
    /\ AfterDrain(Drain(measurement_queue, current_result, ResumeLimit(measurement_queue)))
    /\ notified' = <<>>
    /\ last' = Op("dialog_close", 0)
    /\ UNCHANGED <<abort_requested, measurement_type, nextReq>>
    /\ UNCHANGED <<devVars, autoVars, dataVars, plotVars>>

\* ------------------------------------------------------------------------
\* Auto-repeat: _start_auto_repeat, _stop_auto_repeat, _auto_repeat_cycle,
\* and the save each cycle schedules
\* ------------------------------------------------------------------------
\* The first type, in the order of capabilities.measurement_types, whose
\* check box is set; "none" when no box is set
FirstSelected(types, sel) ==
    IF \E i \in 1..Len(types) : types[i] \in sel
    THEN types[CHOOSE i \in 1..Len(types) :
                  /\ types[i] \in sel
                  /\ \A j \in 1..(i - 1) : types[j] \notin sel]
    ELSE "none"

\* Mutant: the save is scheduled for a selected type even when the request
\* is skipped
CycleRequestsAlwaysSaves ==
    LET t == FirstSelected(CapabilityTypes(devKind), auto_repeat_types) IN
    IF t # "none" /\ ~is_measuring
    THEN /\ QuickMeasureBody(t)
         /\ Len(pendingSaves) < MaxSaves
         /\ pendingSaves' = Append(pendingSaves, nextReq + 1)
    ELSE /\ UNCHANGED schedVars
         /\ pendingSaves' = IF t # "none" /\ Len(pendingSaves) < MaxSaves
                            THEN Append(pendingSaves, 0) ELSE pendingSaves

\* The loop of _auto_repeat_cycle: `if enabled.get() and not
\* self.is_measuring` for every type in order.  The first selected type is
\* requested when nothing is being measured; _quick_measure has then set
\* is_measuring, so the test fails for every later type.
CycleRequests ==
    LET t == FirstSelected(CapabilityTypes(devKind), auto_repeat_types) IN
    IF t # "none" /\ ~is_measuring
    THEN /\ QuickMeasureBody(t)
         /\ Len(pendingSaves) < MaxSaves
         /\ pendingSaves' = Append(pendingSaves, nextReq + 1)
    ELSE /\ UNCHANGED schedVars
         /\ UNCHANGED pendingSaves

\* The types for which the loop of _auto_repeat_cycle calls _quick_measure
CycleIssued ==
    LET t == FirstSelected(CapabilityTypes(devKind), auto_repeat_types) IN
    IF t # "none" /\ ~is_measuring THEN {t} ELSE {}

\* A check box of the auto-repeat tab is toggled
ToggleAutoRepeatType ==
    /\ UserReady
    /\ \E t \in Range(CapabilityTypes(devKind)) :
         auto_repeat_types' = IF t \in auto_repeat_types
                              THEN auto_repeat_types \ {t}
                              ELSE auto_repeat_types \cup {t}
    /\ notified' = <<>>
    /\ handled' = <<>>
    /\ last' = Op("toggle_type", 0)
    /\ UNCHANGED <<auto_repeat_active, auto_repeat_job, pendingSaves>>
    /\ UNCHANGED <<devVars, schedVars, loopVars, dataVars, plotVars>>

\* Mutant: the selection is not tested before auto-repeat is switched on
StartAutoRepeatUnchecked ==
    /\ UserReady
    /\ ~auto_repeat_active
    /\ auto_repeat_active' = TRUE
    /\ CycleRequests
    /\ auto_repeat_job' = TRUE
    /\ last' = IF auto_repeat_types = {} THEN Op("start_rejected", 0)
                ELSE Call("start_auto_repeat", CycleIssued)
    /\ notified' = <<>>
    /\ handled' = <<>>
    /\ UNCHANGED auto_repeat_types
    /\ UNCHANGED <<devVars, loopVars, dataVars, plotVars>>

\* _start_auto_repeat (the Start button, disabled while auto-repeat runs)
StartAutoRepeat ==
    /\ UserReady
    /\ ~auto_repeat_active
    /\ IF auto_repeat_types = {}
       THEN /\ UNCHANGED <<auto_repeat_active, auto_repeat_job, pendingSaves>>
            /\ UNCHANGED schedVars
            /\ last' = Op("start_rejected", 0)
       ELSE /\ auto_repeat_active' = TRUE
            /\ CycleRequests
            /\ auto_repeat_job' = TRUE
            /\ last' = Call("start_auto_repeat", CycleIssued)
    /\ notified' = <<>>
    /\ handled' = <<>>
    /\ UNCHANGED auto_repeat_types
    /\ UNCHANGED <<devVars, loopVars, dataVars, plotVars>>

\* Mutant: the pending cycle is not cancelled
StopAutoRepeatKeepsJob ==
    /\ UserReady
    /\ auto_repeat_active' = FALSE
    /\ notified' = <<>>
    /\ handled' = <<>>
    /\ last' = Op("stop_auto_repeat", 0)
    /\ UNCHANGED <<auto_repeat_job, auto_repeat_types, pendingSaves>>
    /\ UNCHANGED <<devVars, schedVars, loopVars, dataVars, plotVars>>

\* _stop_auto_repeat (the Stop button, or the enable box being cleared)
StopAutoRepeat ==
    /\ UserReady
    /\ auto_repeat_active' = FALSE
    /\ auto_repeat_job' = FALSE
    /\ notified' = <<>>
    /\ handled' = <<>>
    /\ last' = Op("stop_auto_repeat", 0)
    /\ UNCHANGED <<auto_repeat_types, pendingSaves>>
    /\ UNCHANGED <<devVars, schedVars, loopVars, dataVars, plotVars>>

\* _auto_repeat_cycle, fired by its after(interval) timer
AutoRepeatCycle ==
    /\ TimerReady
    /\ auto_repeat_job
    /\ IF ~auto_repeat_active
       THEN /\ auto_repeat_job' = FALSE
            /\ UNCHANGED schedVars
            /\ UNCHANGED pendingSaves
            /\ last' = Op("cycle_inactive", 0)
       ELSE /\ CycleRequests
            /\ auto_repeat_job' = TRUE
            /\ last' = Call("cycle", CycleIssued)
    /\ notified' = <<>>
    /\ handled' = <<>>
    /\ UNCHANGED <<auto_repeat_active, auto_repeat_types>>
    /\ UNCHANGED <<devVars, loopVars, dataVars, plotVars>>

\* Texts the user types into the label entry
LabelTexts == {"", "a"}

\* The label _save_measurement gives: the text of the entry, or
\* measurement_<n> when the entry is empty (default is n then, 0 otherwise);
\* of is the identity of the result the label was made for
Label(text, n, result) ==
    [text |-> text, default |-> IF text = "" THEN n ELSE 0, of |-> result.req]

\* Reading the fields of the result for the new row raises
RowRaises(result) == ~result.wf

\* Mutant: the save does nothing while a measurement is in progress
SaveBodyWhenIdle ==
    IF current_result = NoResult \/ is_measuring
    THEN UNCHANGED dataVars
    ELSE /\ Len(measurement_history) < MaxHistory
         /\ measurement_history' = Append(measurement_history, current_result)
         /\ saved_labels' = Append(saved_labels,
                Label(save_label, Len(measurement_history) + 1, current_result))
         /\ IF RowRaises(current_result)
            THEN UNCHANGED <<data_tree, save_label>>
            ELSE /\ data_tree' = data_tree + 1
                 /\ save_label' = ""
         /\ UNCHANGED selection

\* The body of _save_measurement: nothing to save, or append the current
\* result and its label, add the row and clear the entry
SaveBody ==
    IF current_result = NoResult
    THEN UNCHANGED dataVars
    ELSE /\ Len(measurement_history) < MaxHistory
         /\ measurement_history' = Append(measurement_history, current_result)
         /\ saved_labels' = Append(saved_labels,
                Label(save_label, Len(measurement_history) + 1, current_result))
         /\ IF RowRaises(current_result)
            THEN UNCHANGED <<data_tree, save_label>>
            ELSE /\ data_tree' = data_tree + 1
                 /\ save_label' = ""
         /\ UNCHANGED selection

\* _save_measurement, fired by the after(2000) timer of a cycle
AutoSave ==
    /\ TimerReady
    /\ pendingSaves # <<>>
    /\ pendingSaves' = Tail(pendingSaves)
    /\ SaveBody
    /\ notified' = <<>>
    /\ handled' = <<>>
    /\ last' = Op("auto_save", Head(pendingSaves))
    /\ UNCHANGED plotVars
    /\ UNCHANGED <<auto_repeat_active, auto_repeat_job, auto_repeat_types>>
    /\ UNCHANGED <<devVars, schedVars, loopVars>>

\* The user types into the label entry
TypeLabel ==
    /\ UserReady
    /\ \E text \in LabelTexts \ {save_label} : save_label' = text
    /\ notified' = <<>>
    /\ handled' = <<>>
    /\ last' = Op("type_label", 0)
    /\ UNCHANGED <<measurement_history, saved_labels, data_tree, selection>>
    /\ UNCHANGED <<devVars, schedVars, loopVars, autoVars, plotVars>>

\* _save_measurement (button, menu, Ctrl+S)
SaveMeasurement ==
    /\ UserReady
    /\ SaveBody
    /\ notified' = <<>>
    /\ handled' = <<>>
    /\ last' = Op("save", current_result.req)
    /\ UNCHANGED <<devVars, schedVars, loopVars, autoVars, plotVars>>

\* sorted(indices, reverse=True)
RECURSIVE SortedReverse(_)
SortedReverse(indices) ==
    IF indices = {} THEN <<>>
    ELSE LET top == CHOOSE i \in indices : \A j \in indices : j <= i
         IN  <<top>> \o SortedReverse(indices \ {top})

\* del list[idx], idx counted from 1
DelItem(list, idx) == SubSeq(list, 1, idx - 1) \o SubSeq(list, idx + 1, Len(list))

\* for idx in indices: del list[idx]
RECURSIVE DelItems(_, _)
DelItems(list, indices) ==
    IF indices = <<>> THEN list
    ELSE DelItems(DelItem(list, Head(indices)), Tail(indices))

\* _delete_selected up to its question: nothing when no row is selected
DeleteSelected ==
    /\ UserReady
    /\ \E rows \in SUBSET (1..data_tree) :
          /\ selection' = rows
          /\ ctl' = IF rows = {} THEN "idle" ELSE "confirm_delete"
          /\ last' = Call("delete_selected", rows)
    /\ notified' = <<>>
    /\ handled' = <<>>
    /\ UNCHANGED <<measurement_history, saved_labels, data_tree, save_label>>
    /\ UNCHANGED pollArmed
    /\ UNCHANGED <<devVars, schedVars, autoVars, plotVars>>

\* Mutant: the labels of the deleted results stay
AnswerDeleteKeepsLabels ==
    /\ ctl = "confirm_delete"
    /\ \E yes \in BOOLEAN :
          /\ IF yes
             THEN /\ measurement_history' =
                        DelItems(measurement_history, SortedReverse(selection))
                  /\ UNCHANGED saved_labels
                  /\ data_tree' = data_tree - Cardinality(selection)
             ELSE UNCHANGED <<measurement_history, saved_labels, data_tree>>
          /\ last' = Call("answer_delete", [yes |-> yes, rows |-> selection])
    /\ selection' = {}
    /\ ctl' = "idle"
    /\ notified' = <<>>
    /\ handled' = <<>>
    /\ UNCHANGED <<save_label, pollArmed>>
    /\ UNCHANGED <<devVars, schedVars, autoVars, plotVars>>

\* askyesno returns inside _delete_selected: on yes the selected indices are
\* deleted from both lists, highest first, and the rows are removed
AnswerDelete ==
    /\ ctl = "confirm_delete"
    /\ \E yes \in BOOLEAN :
          /\ IF yes
             THEN /\ measurement_history' =
                        DelItems(measurement_history, SortedReverse(selection))
                  /\ saved_labels' = DelItems(saved_labels, SortedReverse(selection))
                  /\ data_tree' = data_tree - Cardinality(selection)
             ELSE UNCHANGED <<measurement_history, saved_labels, data_tree>>
          /\ last' = Call("answer_delete", [yes |-> yes, rows |-> selection])
    /\ selection' = {}
    /\ ctl' = "idle"
    /\ notified' = <<>>
    /\ handled' = <<>>
    /\ UNCHANGED <<save_label, pollArmed>>
    /\ UNCHANGED <<devVars, schedVars, autoVars, plotVars>>

\* _clear_data up to its question
ClearData ==
    /\ UserReady
    /\ ctl' = "confirm_clear"
    /\ notified' = <<>>
    /\ handled' = <<>>
    /\ last' = Op("clear_data", 0)
    /\ UNCHANGED dataVars
    /\ UNCHANGED pollArmed
    /\ UNCHANGED <<devVars, schedVars, autoVars, plotVars>>

\* askyesno returns inside _clear_data: on yes both lists and the rows are
\* emptied
AnswerClear ==
    /\ ctl = "confirm_clear"
    /\ \E yes \in BOOLEAN :
          /\ IF yes
             THEN /\ measurement_history' = <<>>
                  /\ saved_labels' = <<>>
                  /\ data_tree' = 0
             ELSE UNCHANGED <<measurement_history, saved_labels, data_tree>>
          /\ last' = Call("answer_clear", yes)
    /\ ctl' = "idle"
    /\ notified' = <<>>
    /\ handled' = <<>>
    /\ UNCHANGED <<save_label, selection, pollArmed>>
    /\ UNCHANGED <<devVars, schedVars, autoVars, plotVars>>

\* ------------------------------------------------------------------------
\* The device session driven by a client on one thread: the public methods
\* of SpectralDevice and of the device classes, each called as a whole
\* ------------------------------------------------------------------------
\* The messages a client passes to set_error
Messages == {"fault A", "fault B"}

\* The number of listeners in the registry
TotalListeners(cbs) ==
    Len(cbs["status_changed"]) + Len(cbs["measurement_complete"]) + Len(cbs["error"])

\* Mutant: set_error records the message and notifies, and leaves the status
SetErrorKeepsStatus(message, thread) ==
    /\ last_error' = message
    /\ status' = status
    /\ notified' = SetErrorNotes(message, thread)

\* SpectralDevice.set_error
SetError(message, thread) ==
    /\ last_error' = message
    /\ status' = ERROR
    /\ notified' = SetErrorNotes(message, thread)

\* Mutant: clear_error always goes back to Connected
RestoredStatusConnected(is_connected) == CONNECTED

\* clear_error: DeviceStatus.CONNECTED if self.is_connected() else
\* DeviceStatus.DISCONNECTED
RestoredStatus(is_connected) == IF is_connected THEN CONNECTED ELSE DISCONNECTED

\* SpectralDevice.clear_error
ClearError ==
    /\ last_error' = ""
    /\ status' = IF status = ERROR THEN RestoredStatus(connected) ELSE status
    /\ notified' = <<>>

\* register_callback(event, callback): appended when the event is known
DevRegisterCallback ==
    /\ \E e \in Events \cup {"unknown"}, l \in ClientListeners :
         IF e \in DOMAIN callbacks
         THEN /\ TotalListeners(callbacks) < MaxListeners
              /\ callbacks' = [callbacks EXCEPT ![e] = Append(@, l)]
         ELSE UNCHANGED callbacks
    /\ notified' = <<>>
    /\ handled' = <<>>
    /\ last' = Op("register_callback", 0)
    /\ UNCHANGED <<devKind, connected, status, last_error>>
    /\ UNCHANGED <<schedVars, loopVars, autoVars, dataVars, plotVars>>

\* device.status = value
DevSetStatus ==
    /\ \E value \in DeviceStatus :
         /\ status' = value
         /\ notified' = StatusSetterNotes(status, value, "control")
    /\ handled' = <<>>
    /\ last' = Op("set_status", 0)
    /\ UNCHANGED <<devKind, callbacks, connected, last_error>>
    /\ UNCHANGED <<schedVars, loopVars, autoVars, dataVars, plotVars>>

\* device.set_error(message)
DevSetError ==
    /\ \E message \in Messages :
         /\ SetError(message, "control")
         /\ last' = Call("set_error", message)
    /\ handled' = <<>>
    /\ UNCHANGED <<devKind, callbacks, connected>>
    /\ UNCHANGED <<schedVars, loopVars, autoVars, dataVars, plotVars>>

\* device.clear_error()
DevClearError ==
    /\ ClearError
    /\ handled' = <<>>
    /\ last' = Call("clear_error", status)
    /\ UNCHANGED <<devKind, callbacks, connected>>
    /\ UNCHANGED <<schedVars, loopVars, autoVars, dataVars, plotVars>>

\* device.connect()
DevConnect ==
    /\ \E o \in ConnectOutcomes(devKind) :
         LET first == IF SetsConnecting(devKind)
                      THEN StatusSetterNotes(status, CONNECTING, "control")
                      ELSE <<>>
             from == IF SetsConnecting(devKind) THEN CONNECTING ELSE status
         IN  IF o = "true"
             THEN /\ connected' = TRUE
                  /\ status' = CONNECTED
                  /\ notified' = first \o StatusSetterNotes(from, CONNECTED, "control")
                  /\ last' = Op("dev_connect_true", 0)
                  /\ UNCHANGED last_error
             ELSE /\ last_error' = "Connection failed: e"
                  /\ status' = ERROR
                  /\ notified' = first \o SetErrorNotes("Connection failed: e", "control")
                  /\ last' = Op("dev_connect_false", 0)
                  /\ UNCHANGED connected
    /\ handled' = <<>>
    /\ UNCHANGED <<devKind, callbacks>>
    /\ UNCHANGED <<schedVars, loopVars, autoVars, dataVars, plotVars>>

\* device.disconnect()
DevDisconnect ==
    /\ connected' = FALSE
    /\ status' = DISCONNECTED
    /\ notified' = StatusSetterNotes(status, DISCONNECTED, "control")
    /\ handled' = <<>>
    /\ last' = Op("dev_disconnect", 0)
    /\ UNCHANGED <<devKind, callbacks, last_error>>
    /\ UNCHANGED <<schedVars, loopVars, autoVars, dataVars, plotVars>>

\* device.configure(settings)
DevConfigure ==
    /\ \E o \in ConfigureOutcomes(devKind) :
         IF o = "failed"
         THEN /\ SetError("Configure failed: e", "control")
              /\ last' = Op("dev_configure_false", 0)
         ELSE /\ UNCHANGED <<last_error, status>>
              /\ notified' = <<>>
              /\ last' = Op("dev_configure_true", 0)
    /\ handled' = <<>>
    /\ UNCHANGED <<devKind, callbacks, connected>>
    /\ UNCHANGED <<schedVars, loopVars, autoVars, dataVars, plotVars>>

\* The notifications device.measure makes once the acquisition has returned
\* a result: those of self.status = DeviceStatus.CONNECTED; the event
\* measurement_complete is dispatched nowhere
MeasureDoneNotes(thread) == StatusSetterNotes(MEASURING, CONNECTED, thread)

\* get_capabilities(): wavelength_range and pixel_count
Capabilities(kind) ==
    IF kind = "mock"
    THEN [wavelength_range |-> <<380, 780>>, pixel_count |-> 401]
    ELSE [wavelength_range |-> <<380, 780>>, pixel_count |-> 1024]

\* The wavelengths of the result measure builds, in both device classes:
\* [380 + i for i in range(401)]
MeasuredWavelengths(kind) == [i \in 1..401 |-> 380 + (i - 1)]

\* device.measure(measurement_type)
DevMeasure ==
    /\ IF ChecksConnection(devKind) /\ ~connected
       THEN /\ SetError("Device not connected", "control")
            /\ last' = Op("dev_measure_none", 0)
       ELSE \E o \in AcquireOutcomes(devKind) :
              LET began == StatusSetterNotes(status, MEASURING, "control") IN
              IF o = "failed"
              THEN /\ last_error' = "Measurement failed: e"
                   /\ status' = ERROR
                   /\ notified' = began \o SetErrorNotes("Measurement failed: e", "control")
                                        \o StatusSetterNotes(ERROR, ERROR, "control")
                   /\ last' = Op("dev_measure_none", 0)
              ELSE /\ status' = CONNECTED
                   /\ notified' = began \o MeasureDoneNotes("control")
                   /\ last' = Call("dev_measure_result", MeasuredWavelengths(devKind))
                   /\ UNCHANGED last_error
    /\ handled' = <<>>
    /\ UNCHANGED <<devKind, callbacks, connected>>
    /\ UNCHANGED <<schedVars, loopVars, autoVars, dataVars, plotVars>>

\* ------------------------------------------------------------------------
\* PlotWindow: update_spectrum and the operations that change what the
\* cached background should show
\* ------------------------------------------------------------------------
\* The spectra a caller passes: non-empty lists of equal length whose values
\* reach the given level; finite says that none of them is NaN or Inf
Spectra == {[level |-> l, finite |-> TRUE] : l \in 1..MaxLevel}
              \cup {[level |-> MaxLevel, finite |-> FALSE]}

\* Where the renderer backend fails during one update_spectrum
Faults == {"none", "restore_region", "blit"}

\* The state of the plot that update_spectrum reads and writes
PlotState ==
    [main_line |-> main_line, background |-> background, canvas |-> canvas,
     canvasLine |-> canvasLine, backgroundLine |-> backgroundLine,
     drawPending |-> drawPending, xlim |-> xlim, ylim |-> ylim, dirty |-> dirty]

\* _update_ylim: all_data, the current data and the data of every overlay
AllData(d) == (IF d = NoData THEN {} ELSE {d})
                 \cup {overlay_spectra[n] : n \in DOMAIN overlay_spectra}

\* _update_ylim: ax.set_ylim rejects limits that are NaN or Inf
UpdateYlimRaises(d) == \E a \in AllData(d) : ~a.finite

\* _update_ylim: the limits fit the largest of all_data; unchanged when there
\* are no data
UpdatedYlim(d, old) ==
    IF AllData(d) = {} THEN old
    ELSE CHOOSE l \in {a.level : a \in AllData(d)} :
            \A a \in AllData(d) : a.level <= l

\* The except branch of update_spectrum: set_data, _update_ylim under
\* autoscale, _draw_spectrum_background, canvas.draw_idle()
Fallback(st, d, log) ==
    IF autoscale /\ UpdateYlimRaises(d)
    THEN [st |-> st, log |-> log \o <<"set_data", "set_ylim:raised">>, outcome |-> "raised"]
    ELSE LET y == IF autoscale THEN UpdatedYlim(d, st.ylim) ELSE st.ylim IN
         [st |-> [st EXCEPT !.ylim = y, !.dirty = @ \/ (y # st.ylim), !.drawPending = TRUE],
          log |-> log \o <<"set_data">>
                      \o (IF autoscale THEN <<"set_ylim">> ELSE <<>>)
                      \o <<"draw_idle">>,
          outcome |-> "returned"]

\* The autoscale branch of the blit path: _update_ylim,
\* _draw_spectrum_background, canvas.draw(), copy_from_bbox
Rescaled(st, d) ==
    LET y == UpdatedYlim(d, st.ylim) IN
    [st |-> [st EXCEPT !.ylim = y, !.canvas = Limits(st.xlim, y),
                       !.background = Limits(st.xlim, y), !.dirty = FALSE,
                       !.canvasLine = st.main_line, !.backgroundLine = st.main_line],
     log |-> <<"set_ylim", "draw", "copy_from_bbox">>]

\* The first plot: set_xlim, _update_ylim, ax.plot, canvas.draw(),
\* copy_from_bbox, outside any try
FirstPlot(st, d) ==
    IF UpdateYlimRaises(d)
    THEN [st |-> [st EXCEPT !.xlim = 0, !.dirty = @ \/ (st.xlim # 0)],
          log |-> <<"set_xlim", "set_ylim:raised">>, outcome |-> "raised"]
    ELSE LET y == UpdatedYlim(d, st.ylim) IN
         [st |-> [st EXCEPT !.xlim = 0, !.ylim = y, !.canvas = Limits(0, y),
                            !.background = Limits(0, y), !.dirty = FALSE,
                            !.main_line = TRUE, !.canvasLine = TRUE,
                            !.backgroundLine = TRUE],
          log |-> <<"set_xlim", "set_ylim", "plot", "draw", "copy_from_bbox">>,
          outcome |-> "returned"]

\* The blit path: restore_region, set_data, the autoscale branch,
\* draw_artist, blit; any exception goes to the except branch
BlitPath(st, d, fault) ==
    IF fault = "restore_region"
    THEN Fallback(st, d, <<"restore_region:raised">>)
    ELSE IF autoscale /\ UpdateYlimRaises(d)
    THEN Fallback(st, d, <<"restore_region", "set_data", "set_ylim:raised">>)
    ELSE LET r == IF autoscale THEN Rescaled(st, d) ELSE [st |-> st, log |-> <<>>]
             log == <<"restore_region", "set_data">> \o r.log \o <<"draw_artist">>
         IN  IF fault = "blit"
             THEN Fallback(r.st, d, log \o <<"blit:raised">>)
             ELSE [st |-> [r.st EXCEPT !.canvasLine = TRUE],
                   log |-> log \o <<"blit">>, outcome |-> "returned"]

\* update_spectrum(wavelengths, data, ...) up to the end of its try block
UpdateSpectrumResult(st, d, fault) ==
    IF d = NoData THEN [st |-> st, log |-> <<>>, outcome |-> "returned"]
    ELSE IF ~st.main_line THEN FirstPlot(st, d)
    ELSE BlitPath(st, d, fault)

\* The plot state after an operation that leaves st
SetPlotState(st) ==
    /\ main_line' = st.main_line
    /\ background' = st.background
    /\ canvas' = st.canvas
    /\ canvasLine' = st.canvasLine
    /\ backgroundLine' = st.backgroundLine
    /\ drawPending' = st.drawPending
    /\ xlim' = st.xlim
    /\ ylim' = st.ylim
    /\ dirty' = st.dirty

\* plot_window.update_spectrum, called for a result or by a client
UpdateSpectrum ==
    /\ \E d \in Spectra \cup {NoData}, fault \in Faults :
         LET u == UpdateSpectrumResult(PlotState, d, fault) IN
         /\ current_data' = d
         /\ SetPlotState(u.st)
         /\ plotLog' = u.log
         /\ last' = Call("update_spectrum", u.outcome)
    /\ notified' = <<>>
    /\ handled' = <<>>
    /\ UNCHANGED <<autoscale, show_spectrum_colors, overlay_spectra>>
    /\ UNCHANGED <<devVars, schedVars, loopVars, autoVars, dataVars>>

\* What every plot operation other than update_spectrum leaves alone
PlotOpFrame(name) ==
    /\ last' = Op(name, 0)
    /\ notified' = <<>>
    /\ handled' = <<>>
    /\ UNCHANGED <<devVars, schedVars, loopVars, autoVars, dataVars>>

\* _zoom_in: set_xlim, _draw_spectrum_background, draw_idle
ZoomIn ==
    /\ xlim < MaxZoom
    /\ xlim' = xlim + 1
    /\ dirty' = TRUE
    /\ drawPending' = TRUE
    /\ plotLog' = <<"set_xlim", "draw_idle">>
    /\ PlotOpFrame("zoom_in")
    /\ UNCHANGED <<canvasLine, backgroundLine>>
    /\ UNCHANGED <<main_line, background, canvas, ylim, autoscale,
                   show_spectrum_colors, overlay_spectra, current_data>>

\* _zoom_out: set_xlim, _draw_spectrum_background, draw_idle
ZoomOut ==
    /\ xlim > -MaxZoom
    /\ xlim' = xlim - 1
    /\ dirty' = TRUE
    /\ drawPending' = TRUE
    /\ plotLog' = <<"set_xlim", "draw_idle">>
    /\ PlotOpFrame("zoom_out")
    /\ UNCHANGED <<canvasLine, backgroundLine>>
    /\ UNCHANGED <<main_line, background, canvas, ylim, autoscale,
                   show_spectrum_colors, overlay_spectra, current_data>>

\* reset_zoom: with current wavelengths, set_xlim and _update_ylim; then
\* draw_idle and a capture of the canvas as it is
ResetZoom ==
    /\ IF current_data = NoData
       THEN /\ drawPending' = TRUE
            /\ background' = canvas
            /\ dirty' = FALSE
            /\ plotLog' = <<"draw_idle", "copy_from_bbox">>
            /\ UNCHANGED <<xlim, ylim>>
       ELSE IF UpdateYlimRaises(current_data)
       THEN /\ xlim' = 0
            /\ dirty' = (dirty \/ xlim # 0)
            /\ plotLog' = <<"set_xlim", "set_ylim:raised">>
            /\ UNCHANGED <<ylim, drawPending, background>>
       ELSE /\ xlim' = 0
            /\ ylim' = UpdatedYlim(current_data, ylim)
            /\ drawPending' = TRUE
            /\ background' = canvas
            /\ dirty' = FALSE
            /\ plotLog' = <<"set_xlim", "set_ylim", "draw_idle", "copy_from_bbox">>
    /\ PlotOpFrame("reset_zoom")
    /\ backgroundLine' = IF current_data # NoData /\ UpdateYlimRaises(current_data)
                         THEN backgroundLine ELSE canvasLine
    /\ UNCHANGED canvasLine
    /\ UNCHANGED <<main_line, canvas, autoscale, show_spectrum_colors,
                   overlay_spectra, current_data>>

\* _toggle_autoscale
ToggleAutoscale ==
    /\ autoscale' = ~autoscale
    /\ plotLog' = <<>>
    /\ PlotOpFrame("toggle_autoscale")
    /\ UNCHANGED <<canvasLine, backgroundLine>>
    /\ UNCHANGED <<main_line, background, canvas, drawPending, xlim, ylim,
                   show_spectrum_colors, overlay_spectra, current_data, dirty>>

\* _toggle_spectrum_colors: _draw_spectrum_background, draw_idle
ToggleSpectrumColors ==
    /\ show_spectrum_colors' = ~show_spectrum_colors
    /\ dirty' = TRUE
    /\ drawPending' = TRUE
    /\ plotLog' = <<"draw_idle">>
    /\ PlotOpFrame("toggle_spectrum_colors")
    /\ UNCHANGED <<canvasLine, backgroundLine>>
    /\ UNCHANGED <<main_line, background, canvas, xlim, ylim, autoscale,
                   overlay_spectra, current_data>>

\* _save_as_reference and add_overlay: the current data become the overlay
\* "Reference n", n one more than the number of overlays; draw_idle and a
\* capture of the canvas as it is
SaveAsReference ==
    /\ IF current_data = NoData
       THEN /\ plotLog' = <<>>
            /\ UNCHANGED <<overlay_spectra, drawPending, background, dirty>>
       ELSE LET name == Cardinality(DOMAIN overlay_spectra) + 1 IN
            /\ name <= MaxOverlays
            /\ overlay_spectra' =
                  [n \in DOMAIN overlay_spectra \cup {name} |->
                      IF n = name THEN current_data ELSE overlay_spectra[n]]
            /\ drawPending' = TRUE
            /\ background' = canvas
            /\ dirty' = FALSE
            /\ plotLog' = <<"plot", "draw_idle", "copy_from_bbox">>
    /\ PlotOpFrame("save_as_reference")
    /\ backgroundLine' = IF current_data = NoData THEN backgroundLine ELSE canvasLine
    /\ UNCHANGED canvasLine
    /\ UNCHANGED <<main_line, canvas, xlim, ylim, autoscale,
                   show_spectrum_colors, current_data>>

\* remove_overlay(name): the overlay is removed if present; draw_idle
RemoveOverlay ==
    /\ \E name \in 1..MaxOverlays :
         /\ overlay_spectra' =
               [n \in DOMAIN overlay_spectra \ {name} |-> overlay_spectra[n]]
         /\ dirty' = (dirty \/ name \in DOMAIN overlay_spectra)
    /\ drawPending' = TRUE
    /\ plotLog' = <<"draw_idle">>
    /\ PlotOpFrame("remove_overlay")
    /\ UNCHANGED <<canvasLine, backgroundLine>>
    /\ UNCHANGED <<main_line, background, canvas, xlim, ylim, autoscale,
                   show_spectrum_colors, current_data>>

\* clear_overlays: every overlay is removed; draw_idle
ClearOverlays ==
    /\ overlay_spectra' = <<>>
    /\ dirty' = (dirty \/ DOMAIN overlay_spectra # {})
    /\ drawPending' = TRUE
    /\ plotLog' = <<"draw_idle">>
    /\ PlotOpFrame("clear_overlays")
    /\ UNCHANGED <<canvasLine, backgroundLine>>
    /\ UNCHANGED <<main_line, background, canvas, xlim, ylim, autoscale,
                   show_spectrum_colors, current_data>>

\* _on_resize: canvas.draw() and a capture of the canvas
OnResize ==
    /\ canvas' = Limits(xlim, ylim)
    /\ background' = Limits(xlim, ylim)
    /\ dirty' = FALSE
    /\ plotLog' = <<"draw", "copy_from_bbox">>
    /\ PlotOpFrame("on_resize")
    /\ canvasLine' = main_line
    /\ backgroundLine' = main_line
    /\ UNCHANGED <<main_line, drawPending, xlim, ylim, autoscale,
                   show_spectrum_colors, overlay_spectra, current_data>>

\* The event loop runs the draw that draw_idle asked for
IdleDraw ==
    /\ drawPending
    /\ drawPending' = FALSE
    /\ canvas' = Limits(xlim, ylim)
    /\ plotLog' = <<"draw">>
    /\ PlotOpFrame("idle_draw")
    /\ canvasLine' = main_line
    /\ UNCHANGED backgroundLine
    /\ UNCHANGED <<main_line, background, xlim, ylim, autoscale,
                   show_spectrum_colors, overlay_spectra, current_data, dirty>>

\* ------------------------------------------------------------------------
\* MeasurementResult: construction
\* ------------------------------------------------------------------------
\* The lists a caller can pass as wavelengths and as spectral_data
Lists == UNION {[1..n -> 1..MaxValue] : n \in 0..MaxLen}

\* MeasurementResult(wavelengths, spectral_data, ...): the generated
\* initialiser of the dataclass stores its arguments; there is no
\* __post_init__
Construct(wl, sd) ==
    [constructed |-> TRUE, wavelengths |-> wl, spectral_data |-> sd]

\* A caller constructs a MeasurementResult
NewMeasurementResult ==
    /\ \E wl \in Lists, sd \in Lists :
         last' = Call("MeasurementResult", Construct(wl, sd))
    /\ notified' = <<>>
    /\ handled' = <<>>
    /\ UNCHANGED <<devVars, schedVars, loopVars, autoVars, dataVars, plotVars>>

\* ------------------------------------------------------------------------
\* hcl_to_rgb and wavelength_to_rgb
\* ------------------------------------------------------------------------
\* The floating-point values of the source are fixed-point integers here:
\* wavelengths in nm; hue, chroma, luminance and the falloff factor in
\* thousandths; cosines, the Lab and XYZ terms and the colour channels in
\* ten-thousandths (a channel of 10000 is 1.0). Divisions round down. The
\* channels are within 0.01 of those of the source.

\* math.cos on 0..90 degrees: cosines at every fifth degree, interpolated
CosTable == <<10000, 9962, 9848, 9659, 9397, 9063, 8660, 8192, 7660, 7071, 6428, 5736, 5000, 4226, 3420, 2588, 1736, 872, 0>>

CosQuadrant(h) ==
    LET i == h \div 5000
        f == h % 5000
    IN  IF i >= 18 THEN CosTable[19]
        ELSE CosTable[i + 1] + ((CosTable[i + 2] - CosTable[i + 1]) * f) \div 5000

\* math.cos(math.radians(h)), h in thousandths of a degree
Cos(h) ==
    LET a == h % 360000 IN
    IF a <= 90000 THEN CosQuadrant(a)
    ELSE IF a <= 180000 THEN -CosQuadrant(180000 - a)
    ELSE IF a <= 270000 THEN -CosQuadrant(a - 180000)
    ELSE CosQuadrant(360000 - a)

\* math.sin(math.radians(h))
Sin(h) == Cos(h - 90000)

\* The largest r in lo..hi with r^k <= n, for k = 2 and k = 3
RECURSIVE Root(_, _, _, _)
Root(k, n, lo, hi) ==
    IF lo >= hi THEN lo
    ELSE LET m == (lo + hi + 1) \div 2
             p == IF k = 2 THEN m * m ELSE m * m * m
         IN  IF p <= n THEN Root(k, n, m, hi) ELSE Root(k, n, lo, m - 1)

\* f_inv(t): t ** 3 above delta = 6/29, 3 * delta ** 2 * (t - 4/29) otherwise
FInv(t) ==
    IF t > 2069 THEN (((t * t) \div 10000) * t) \div 10000
    ELSE ((t - 1379) * 1284) \div 10000

\* gamma_correct(c): 12.92 * c up to 0.0031308, 1.055 * c ** (1/2.4) - 0.055
\* above; c ** (5/12) is the fifth power of the cube root of the fourth root
GammaCorrect(c) ==
    IF c <= 31 THEN (c * 1292) \div 100
    ELSE LET s1 == Root(2, c * 10000, 0, 46340)
             s2 == Root(2, s1 * 10000, 0, 46340)
             r  == Root(3, s2 * 100000, 0, 1290)
             r2 == (r * r) \div 1000
             r4 == (r2 * r2) \div 1000
             r5 == (r4 * r) \div 1000
         IN  (r5 * 1055) \div 100 - 550

\* Mutant: the channel is returned as computed
ClampChannelNot(v) == v

\* max(0, min(1, v))
ClampChannel(v) == IF v < 0 THEN 0 ELSE IF v > 10000 THEN 10000 ELSE v

\* hcl_to_rgb(h, c, l)
HclToRgb(h, c, l) ==
    LET a  == (c * Cos(h)) \div 10000
        b  == (c * Sin(h)) \div 10000
        fy == ((l + 16000) * 10) \div 116
        fx == a \div 50 + fy
        fz == fy - b \div 20
        X  == (FInv(fx) * 9505) \div 10000
        Y  == FInv(fy)
        Z  == (FInv(fz) * 10888) \div 10000
        R  == (32405 * X - 15371 * Y - 4985 * Z) \div 10000
        G  == (18760 * Y + 416 * Z - 9693 * X) \div 10000
        B  == (556 * X - 2040 * Y + 10572 * Z) \div 10000
    IN  <<ClampChannel(GammaCorrect(R)), ClampChannel(GammaCorrect(G)),
          ClampChannel(GammaCorrect(B))>>

\* Mutant: the wavelength is used as given
ClampWavelengthNot(w) == w

\* The clamp to the visible range at the head of wavelength_to_rgb
ClampWavelength(w) == IF w < 380 THEN 380 ELSE IF w > 780 THEN 780 ELSE w

Hcl(h, c, l) == [hue |-> h, chroma |-> c, luminance |-> l]

\* The six band formulas of wavelength_to_rgb
VioletToBlue(w) ==
    Hcl(285000 - ((w - 380) * 25000) \div 60,
        60000 + ((w - 380) * 40000) \div 60,
        30000 + ((w - 380) * 25000) \div 60)

\* Mutant: the band begins at hue 265
BlueToCyanFrom265(w) ==
    Hcl(265000 - ((w - 440) * 50000) \div 50,
        100000,
        55000 + ((w - 440) * 15000) \div 50)

BlueToCyan(w) ==
    Hcl(260000 - ((w - 440) * 50000) \div 50,
        100000,
        55000 + ((w - 440) * 15000) \div 50)

CyanToGreen(w) ==
    Hcl(210000 - ((w - 490) * 50000) \div 20,
        100000 - ((w - 490) * 10000) \div 20,
        70000 + ((w - 490) * 10000) \div 20)

GreenToYellow(w) ==
    Hcl(160000 - ((w - 510) * 75000) \div 70,
        90000 + ((w - 510) * 10000) \div 70,
        80000 + ((w - 510) * 15000) \div 70)

YellowToOrange(w) ==
    Hcl(85000 - ((w - 580) * 45000) \div 65,
        100000,
        95000 - ((w - 580) * 20000) \div 65)

OrangeToRed(w) ==
    Hcl(40000 - ((w - 645) * 25000) \div 135,
        100000 - ((w - 645) * 30000) \div 135,
        75000 - ((w - 645) * 35000) \div 135)

\* The if/elif chain that selects the band of a clamped wavelength
Ramp(w) ==
    IF w < 440 THEN VioletToBlue(w)
    ELSE IF w < 490 THEN BlueToCyan(w)
    ELSE IF w < 510 THEN CyanToGreen(w)
    ELSE IF w < 580 THEN GreenToYellow(w)
    ELSE IF w < 645 THEN YellowToOrange(w)
    ELSE OrangeToRed(w)

\* The two falloff formulas at the edges of the visible range
FalloffLow(w) == 300 + (700 * (w - 380)) \div 40

FalloffHigh(w) == 300 + (700 * (780 - w)) \div 80

\* The intensity applied to chroma and luminance; 1000 where none is applied
Intensity(w) ==
    IF w < 420 THEN FalloffLow(w)
    ELSE IF w > 700 THEN FalloffHigh(w)
    ELSE 1000

\* wavelength_to_rgb(wavelength)
WavelengthToRgb(wavelength) ==
    LET w == ClampWavelength(wavelength)
        r == Ramp(w)
        i == Intensity(w)
    IN  HclToRgb(r.hue, (r.chroma * i) \div 1000, (r.luminance * i) \div 1000)

\* The wavelengths a caller passes
Wavelengths == (380 - Below)..(780 + Above)

\* What one call leaves behind: its argument, which call of a pair it was,
\* the ramp and the intensity it went through, and the value it returned
Conversion(wavelength, call) ==
    [wavelength |-> wavelength, call |-> call,
     ramp |-> Ramp(ClampWavelength(wavelength)),
     intensity |-> Intensity(ClampWavelength(wavelength)),
     rgb |-> WavelengthToRgb(wavelength)]

\* A caller converts the wavelengths of a gradient in increasing order, as
\* _draw_spectrum_background does, and may convert a wavelength again
NextWavelengths ==
    IF last.op = "wavelength_to_rgb"
    THEN {last.arg.wavelength, last.arg.wavelength + 1} \cap Wavelengths
    ELSE Wavelengths

ConvertWavelength ==
    /\ \E w \in NextWavelengths :
         last' = Call("wavelength_to_rgb",
                      Conversion(w, IF last.op = "wavelength_to_rgb"
                                    THEN 1 - last.arg.call ELSE 0))
    /\ notified' = <<>>
    /\ handled' = <<>>
    /\ UNCHANGED <<devVars, schedVars, loopVars, autoVars, dataVars, plotVars>>

\* ------------------------------------------------------------------------
\* Specifications
\* ------------------------------------------------------------------------
\* Steps of a worker thread
WorkerStep ==
    \/ \E r \in Requests : WorkerConfigure(r)
    \/ \E r \in Requests : WorkerCheckAbort(r)
    \/ \E r \in Requests : WorkerCallMeasure(r)
    \/ \E r \in Requests : WorkerSetMeasuring(r)
    \/ \E r \in Requests : WorkerMeasureReturn(r)
    \/ \E r \in Requests : WorkerPost(r)

\* The scheduler with the device's status machine: manual requests, abort,
\* the worker, the polling loop and reconnect
Next ==
    \/ Measure
    \/ QuickMeasure
    \/ AbortMeasurement
    \/ WorkerStep
    \/ ReconnectDisconnect
    \/ ReconnectConnect
    \/ ConnectFinish
    \/ ProcessQueue
    \/ DialogClose

\* The scheduler with auto-repeat: manual requests, abort, the worker, the
\* polling loop, and the auto-repeat controller with its timers
NextAuto ==
    \/ Measure
    \/ QuickMeasure
    \/ AbortMeasurement
    \/ WorkerStep
    \/ ProcessQueue
    \/ DialogClose
    \/ ToggleAutoRepeatType
    \/ StartAutoRepeat
    \/ StopAutoRepeat
    \/ AutoRepeatCycle
    \/ AutoSave

\* The devices whose code is in the sources
Spec == Init /\ [][Next]_vars

\* The same devices, with auto-repeat running
SpecAuto == Init /\ [][NextAuto]_vars

\* Any device that implements the capability contract
SpecAny == InitAny /\ [][Next]_vars

\* Every operation of the model together
NextFull ==
    \/ Next
    \/ ToggleAutoRepeatType
    \/ StartAutoRepeat
    \/ StopAutoRepeat
    \/ AutoRepeatCycle
    \/ AutoSave

SpecFull == Init /\ [][NextFull]_vars

\* The data tab on a device that implements the capability contract: results
\* come from auto-repeat and are saved by its timer or by the user, deleted
\* and cleared
NextData ==
    \/ WorkerStep
    \/ ProcessQueue
    \/ DialogClose
    \/ ToggleAutoRepeatType
    \/ StartAutoRepeat
    \/ AutoRepeatCycle
    \/ AutoSave
    \/ TypeLabel
    \/ SaveMeasurement
    \/ DeleteSelected
    \/ AnswerDelete
    \/ ClearData
    \/ AnswerClear

InitData ==
    /\ devKind = "external"
    /\ InitCommon

SpecData == InitData /\ [][NextData]_vars

\* The device session on its own, called by a client
NextDevice ==
    \/ DevRegisterCallback
    \/ DevSetStatus
    \/ DevSetError
    \/ DevClearError
    \/ DevConnect
    \/ DevDisconnect
    \/ DevConfigure
    \/ DevMeasure

SpecDevice == InitDevice /\ [][NextDevice]_vars

\* The plot window alone, as created by the main window
InitPlot == devKind = "mock" /\ InitCommon

NextPlot ==
    \/ UpdateSpectrum
    \/ ZoomIn
    \/ ZoomOut
    \/ ResetZoom
    \/ ToggleAutoscale
    \/ ToggleSpectrumColors
    \/ SaveAsReference
    \/ RemoveOverlay
    \/ ClearOverlays
    \/ OnResize
    \/ IdleDraw

SpecPlot == InitPlot /\ [][NextPlot]_vars

\* Construction of results alone
NextResult == NewMeasurementResult

SpecResult == InitPlot /\ [][NextResult]_vars

\* The colour mapping alone
NextColor == ConvertWavelength

SpecColor == InitPlot /\ [][NextColor]_vars

\* ------------------------------------------------------------------------
\* Claims
\* ------------------------------------------------------------------------
\* The entries of the queue that belong to request r
QueueEntriesOf(r) == SelectSeq(measurement_queue, LAMBDA e : e.req = r)

\* The worker of r has put its outcome and the polling loop has not yet
\* dequeued it
Posted(r) == workers[r].pc = "done" /\ ~workers[r].delivered

\* C1: at most one measurement request is outstanding (started, outcome not
\* yet dequeued) in every reachable state, so at most one worker thread is
\* alive, whatever the interleaving of manual requests, auto-repeat cycles,
\* aborts, worker steps and polling ticks.
C1_SingleOutstanding ==
    /\ Cardinality({r \in Requests : Outstanding(r)}) <= 1
    /\ Cardinality({r \in Requests : Running(r)}) <= 1

\* A request was refused while the worker of the outstanding one is inside
\* device.measure
C1_Witness ==
    /\ \E r \in Requests : Outstanding(r) /\ workers[r].pc = "acquiring"
    /\ last.op \in {"measure_rejected", "quick_rejected"}

\* C2: a _measure or _quick_measure made while is_measuring is true starts
\* no worker and leaves is_measuring, abort_requested, the selected type,
\* the queue and current_result unchanged.
C2_RejectedRequestChangesNothing ==
    [][(is_measuring /\ (Measure \/ QuickMeasure)) =>
          UNCHANGED <<is_measuring, abort_requested, measurement_type,
                      measurement_queue, current_result, workers, nextReq>>]_vars

\* _quick_measure has just been refused while a worker is running
C2_Witness ==
    /\ last.op = "quick_rejected"
    /\ is_measuring
    /\ \E r \in Requests : Running(r) /\ workers[r].mtype = measurement_type

\* C3: a worker whose device calls return or raise puts exactly one outcome:
\* Aborted if it saw the abort flag after configure, Error(str(e)) if
\* configure, the conversion or measure raised, Error('Measurement failed')
\* if measure returned None, Success(result) otherwise; before that it has
\* put nothing.
C3_ExactlyOneOutcome ==
    \A r \in Requests :
        /\ ~Posted(r) => QueueEntriesOf(r) = <<>>
        /\ Posted(r) =>
              LET w == workers[r] IN
              /\ Len(QueueEntriesOf(r)) = 1
              /\ QueueEntriesOf(r)[1] =
                    CASE w.sawAbort -> Outcome("aborted", "", NoResult, r)
                      [] w.ret = "raised" -> Outcome("error", w.exc, NoResult, r)
                      [] w.ret = "None" -> Outcome("error", "Measurement failed", NoResult, r)
                      [] w.ret = "result" -> Outcome("success", "", Result(w.mtype, r, w.wf), r)
                      [] OTHER -> Outcome("none", "", NoResult, r)
              /\ w.ret = "raised" => w.exc # ""

\* measure returned None and the worker has put Error('Measurement failed')
C3_Witness ==
    \E r \in Requests :
        /\ Posted(r)
        /\ workers[r].ret = "None"
        /\ QueueEntriesOf(r) = <<Outcome("error", "Measurement failed", NoResult, r)>>

\* C4: is_measuring goes from true to false only in a step of the polling
\* loop that dequeued an outcome; while the outcome of a started worker has
\* not been dequeued is_measuring is true and no request is accepted, so a
\* measure that never returns blocks every later request.
C4_FlagClearedOnlyByDequeue ==
    /\ [](\A r \in Requests : Outstanding(r) => is_measuring)
    /\ [][(is_measuring /\ ~is_measuring') =>
             (handled' # <<>> /\ (ProcessQueue \/ DialogClose))]_vars
    /\ [][(nextReq' # nextReq) => (\A r \in Requests : ~Outstanding(r))]_vars

\* Auto-repeat was stopped while the worker is inside device.measure and
\* after an abort: the flag is still set
C4_Witness ==
    /\ last.op = "stop_auto_repeat"
    /\ abort_requested
    /\ is_measuring
    /\ \E r \in Requests : workers[r].pc = "acquiring"

C6_AbortBeforeMeasureIsAborted ==
    \A r \in Requests :
        (Posted(r) /\ workers[r].abortEarly) => workers[r].out = "aborted"

\* C7: an outcome is Aborted only if measure was never called for the
\* request; an abort requested once measure has started or returned leaves
\* the outcome the Success or Error that measure produced.
C7_AbortedOnlyBeforeMeasure ==
    \A r \in Requests :
        /\ workers[r].out = "aborted" => ~workers[r].called
        /\ (Posted(r) /\ workers[r].called) =>
              workers[r].out = (IF workers[r].ret = "result" THEN "success" ELSE "error")

\* An abort was requested while the worker was inside measure, and the
\* outcome put is Success
C7_Witness ==
    \E r \in Requests :
        /\ Posted(r)
        /\ workers[r].abortLate
        /\ abort_requested
        /\ workers[r].out = "success"

\* The status table of the device session, with the CONNECTING step that
\* connect makes on its way
StatusTable ==
    {<<DISCONNECTED, CONNECTING>>, <<CONNECTING, CONNECTED>>,
     <<DISCONNECTED, CONNECTED>>,
     <<CONNECTED, MEASURING>>, <<MEASURING, CONNECTED>>,
     <<ERROR, CONNECTED>>, <<ERROR, DISCONNECTED>>,
     <<CONNECTED, DISCONNECTED>>, <<MEASURING, DISCONNECTED>>}
    \cup {<<s, ERROR>> : s \in DeviceStatus}

\* Every change of the status is a transition of the status table
StatusFollowsTable ==
    [][(status' # status) => <<status, status'>> \in StatusTable]_vars

\* C8: every change of the status is a transition of the status table; in
\* particular the status never goes from Disconnected directly to
\* Measuring, whatever the interleaving of connect, disconnect and
\* reconnect on the control thread with a worker running measure.
C8_NeverDisconnectedToMeasuring ==
    [][~(status = DISCONNECTED /\ status' = MEASURING)]_vars

\* C9: a measure that fails (device not connected, or the acquisition
\* raises) sets the status to Error, records the message in last_error,
\* calls the error listeners with that message and returns None.
C9_FailedMeasureSetsError ==
    [][\A r \in Requests :
          (workers[r].ret = "none" /\ workers'[r].ret = "None") =>
              /\ status' = ERROR
              /\ last_error' \in {"Device not connected", "Measurement failed: e"}
              /\ \E i \in 1..Len(notified') :
                    /\ notified'[i].event = "error"
                    /\ notified'[i].listener = "_on_device_error"
                    /\ notified'[i].data = last_error'
              /\ workers'[r].pc = "returned"]_vars

\* measure was called on a disconnected device and returned None
C9_Witness ==
    \E r \in Requests :
        /\ workers[r].pc = "returned"
        /\ workers[r].ret = "None"
        /\ last.op = "call_measure"
        /\ status = ERROR
        /\ last_error = "Device not connected"

\* C10: connect sets the status to Connecting before it attempts the
\* connection, and to Connected (returning true) or Error with last_error
\* set (returning false) afterwards; it never returns with the status
\* Connecting.
C10_ConnectGoesThroughConnecting ==
    /\ [][(ctl = "reconnect" /\ ctl' # "reconnect") => status' = CONNECTING]_vars
    /\ [][(last'.op = "connect_true") => status' = CONNECTED]_vars
    /\ [][(last'.op = "connect_false") => (status' = ERROR /\ last_error' # "")]_vars

\* C11: set_error(message), called in any status, leaves the status Error
\* and last_error equal to message, and calls every listener registered on
\* the error event once per registration, in order, with the message.
C11_SetErrorSetsErrorAndNotifies ==
    [][(last'.op = "set_error") =>
          /\ status' = ERROR
          /\ last_error' = last'.arg
          /\ notified' = [i \in 1..Len(callbacks["error"]) |->
                            [event |-> "error", listener |-> callbacks["error"][i],
                             data |-> last'.arg, thread |-> "control",
                             raised |-> (callbacks["error"][i] = "raising"),
                             escaped |-> FALSE]]]_vars

\* set_error was called with two listeners registered on error and one on
\* status_changed: the two were called with the message
C11_Witness ==
    /\ last.op = "set_error"
    /\ status = ERROR
    /\ last_error = "fault B"
    /\ Len(callbacks["error"]) = 2
    /\ Len(notified) = 2
    /\ \A i \in 1..2 : notified[i].event = "error" /\ notified[i].data = "fault B"

\* C12: clear_error empties last_error; from Error it sets the status to
\* Connected if is_connected() and to Disconnected otherwise; in any other
\* status it leaves the status as it is.
C12_ClearErrorRestoresStatus ==
    [][(last'.op = "clear_error") =>
          /\ last_error' = ""
          /\ status = ERROR /\ connected => status' = CONNECTED
          /\ status = ERROR /\ ~connected => status' = DISCONNECTED
          /\ status # ERROR => status' = status]_vars

\* clear_error found the status Error on a device that is not connected
C12_Witness ==
    /\ last.op = "clear_error"
    /\ last.arg = ERROR
    /\ ~connected
    /\ status = DISCONNECTED
    /\ last_error = ""

\* C13: in every dispatch each listener registered on the event is called,
\* in order, whether or not an earlier one raised, and no exception of a
\* listener leaves the dispatch.
C13_RaisingListenerIsIsolated ==
    \A e \in Events :
        LET sub == SelectSeq(notified, LAMBDA n : n.event = e)
            cbs == callbacks[e]
        IN  /\ \A i \in 1..Len(sub) : ~sub[i].escaped
            /\ cbs = <<>> => sub = <<>>
            /\ cbs # <<>> =>
                  /\ Len(sub) % Len(cbs) = 0
                  /\ \A i \in 1..Len(sub) :
                        sub[i].listener = cbs[((i - 1) % Len(cbs)) + 1]

\* A listener on error raised and the listener registered after it was
\* called all the same
C13_Witness ==
    /\ Len(notified) = 2
    /\ notified[1].event = "error" /\ notified[1].listener = "raising"
    /\ notified[1].raised
    /\ notified[2].event = "error" /\ notified[2].listener = "quiet"

\* The calls of the status_changed listeners among the calls a step made
StatusChangedCalls(notes) == SelectSeq(notes, LAMBDA n : n.event = "status_changed")

\* C14: the status_changed listeners are called exactly when the status
\* changes: a status setter, set_error or clear_error that changes the
\* status calls each of them once with the new status, and one that leaves
\* the status as it was calls none.
C14_StatusChangedExactlyOnChange ==
    [][(last'.op \in {"set_status", "set_error", "clear_error"}) =>
          LET sub == StatusChangedCalls(notified')
              cbs == callbacks["status_changed"]
          IN  IF status' # status
              THEN /\ Len(sub) = Len(cbs)
                   /\ \A i \in 1..Len(sub) :
                         sub[i].listener = cbs[i] /\ sub[i].data = status'
              ELSE sub = <<>>]_vars

\* C15: when device.measure returns a result, every listener registered on
\* measurement_complete is called with it.
C15_MeasurementCompleteIsDispatched ==
    [][(last'.op = "dev_measure_result") =>
          \A i \in 1..Len(callbacks["measurement_complete"]) :
             \E j \in 1..Len(notified') :
                /\ notified'[j].event = "measurement_complete"
                /\ notified'[j].listener = callbacks["measurement_complete"][i]]_vars

\* C16: configure returns true or false and leaves the device status as it
\* was, whether it succeeds or fails.
C16_ConfigureLeavesStatus ==
    [][(last'.op \in {"dev_configure_true", "dev_configure_false"}) =>
          status' = status]_vars

\* C17: no listener called on the worker thread calls into the UI toolkit.
C17_WorkerNeverCallsToolkit ==
    \A i \in 1..Len(notified) :
        notified[i].thread = "worker" => ToolkitCalls(notified[i].listener) = <<>>

\* The steps that run on a worker thread
WorkerOps == {"configure", "check_abort", "call_measure", "set_measuring",
              "measure_return", "post"}

\* C18: no step of a worker thread writes the device's status or last_error
\* or the scheduler's is_measuring or abort_requested.
C18_WorkerWritesNoSharedState ==
    [][(last'.op \in WorkerOps) =>
          UNCHANGED <<status, last_error, is_measuring, abort_requested>>]_vars

\* C19: _start_auto_repeat with no type selected leaves auto_repeat_active
\* false, schedules no cycle and starts no request.
C19_StartWithoutTypesIsRejected ==
    [][(StartAutoRepeat /\ auto_repeat_types = {}) =>
          /\ ~auto_repeat_active'
          /\ ~auto_repeat_job'
          /\ UNCHANGED <<schedVars, pendingSaves>>]_vars

\* Start was refused with nothing selected, after an earlier run of
\* auto-repeat had started a request
C19_Witness ==
    /\ last.op = "start_rejected"
    /\ auto_repeat_types = {}
    /\ ~auto_repeat_active
    /\ ~auto_repeat_job
    /\ nextReq > 0

\* C20: a cycle that runs while auto-repeat is active calls _quick_measure
\* for every selected type that has no outstanding request.
C20_CycleRequestsEverySelectedType ==
    [][(last'.op \in {"cycle", "start_auto_repeat"}) =>
          \A t \in auto_repeat_types :
             (~\E r \in Requests : Outstanding(r) /\ workers[r].mtype = t)
                => t \in last'.arg]_vars

\* A cycle that runs while nothing at all is outstanding calls
\* _quick_measure for every selected type
CycleWithNothingOutstandingRequestsAll ==
    [][(last'.op \in {"cycle", "start_auto_repeat"}
            /\ \A r \in Requests : ~Outstanding(r)) =>
          auto_repeat_types \subseteq last'.arg]_vars

\* C21: a cycle that runs while a request for a selected type is still
\* outstanding starts no request, puts nothing on the queue and schedules
\* no save for later; it schedules the next cycle.
C21_CycleSkipsOutstandingType ==
    [][(last'.op = "cycle"
            /\ \E r \in Requests :
                  Outstanding(r) /\ workers[r].mtype \in auto_repeat_types) =>
          /\ last'.arg = {}
          /\ UNCHANGED <<schedVars, pendingSaves>>
          /\ auto_repeat_job']_vars

\* The second cycle ran while the worker started by the first is inside
\* device.measure
C21_Witness ==
    /\ last.op = "cycle"
    /\ last.arg = {}
    /\ nextReq = 1
    /\ auto_repeat_job
    /\ \E r \in Requests :
          /\ workers[r].pc = "acquiring"
          /\ workers[r].mtype \in auto_repeat_types

\* C22: _stop_auto_repeat cancels the pending cycle and switches
\* auto-repeat off, so that no cycle runs and no cycle starts a request
\* until the next start; it leaves is_measuring, abort_requested, the
\* worker, the queue and the polling loop as they were.
C22_StopCancelsCycleOnly ==
    /\ [](~auto_repeat_active => ~auto_repeat_job)
    /\ [][(last'.op \in {"cycle", "cycle_inactive"}) => auto_repeat_active]_vars
    /\ [][(last'.op = "stop_auto_repeat") =>
             /\ ~auto_repeat_active' /\ ~auto_repeat_job'
             /\ UNCHANGED <<schedVars, loopVars, devVars, pendingSaves>>]_vars

\* Auto-repeat was stopped while the worker of its request is inside
\* device.measure: the request is still outstanding and not aborted
C22_Witness ==
    /\ last.op = "stop_auto_repeat"
    /\ ~auto_repeat_active
    /\ ~auto_repeat_job
    /\ is_measuring
    /\ ~abort_requested
    /\ \E r \in Requests :
          /\ workers[r].pc = "acquiring"
          /\ ~workers[r].abortEarly /\ ~workers[r].abortLate

\* C23: an update on a window that already has a line, whose axis limits are
\* those of the cached background, draws nothing but the line: no full
\* canvas.draw() and no new capture of the background
C23_UnchangedLimitsOnlyBlit ==
    [][(/\ last'.op = "update_spectrum"
        /\ main_line
        /\ current_data' # NoData
        /\ background = Limits(xlim, ylim)
        /\ Limits(xlim', ylim') = Limits(xlim, ylim))
       => (\A i \in 1..Len(plotLog') : plotLog'[i] \notin {"draw", "copy_from_bbox"})]_vars

\* C24: the cached background is never restored after a change of what it
\* shows (zoom, rescale, overlays, colours) without a capture in between
C24_StaleBackgroundNeverRestored ==
    [][(\E i \in 1..Len(plotLog') : plotLog'[i] = "restore_region") => ~dirty]_vars

\* C25: an update on a window that already has a line returns normally
\* whatever is raised on the blit path, having asked for a full redraw
C25_BlitFailureFallsBack ==
    [][(/\ last'.op = "update_spectrum"
        /\ main_line
        /\ \E i \in 1..Len(plotLog') :
              plotLog'[i] \in {"restore_region:raised", "set_ylim:raised", "blit:raised"})
       => (/\ last'.arg = "returned"
           /\ plotLog'[Len(plotLog')] = "draw_idle")]_vars

\* C26: every MeasurementResult that has been constructed has as many
\* wavelengths as spectral values; other arguments are rejected
C26_ConstructionRejectsMismatch ==
    (last.op = "MeasurementResult" /\ last.arg.constructed)
       => Len(last.arg.wavelengths) = Len(last.arg.spectral_data)

\* C27: the wavelengths of a result returned by measure are strictly
\* increasing, as many as the pixel_count of the capabilities, and go from
\* the lower to the upper end of wavelength_range
C27_WavelengthsFitCapabilities ==
    (last.op = "dev_measure_result") =>
        LET wl == last.arg
            cap == Capabilities(devKind)
        IN  /\ Len(wl) = cap.pixel_count
            /\ \A i \in 1..(Len(wl) - 1) : wl[i] < wl[i + 1]
            /\ wl[1] = cap.wavelength_range[1]
            /\ wl[Len(wl)] = cap.wavelength_range[2]

\* The same for the mock device alone, whose capabilities say 401 pixels
MockWavelengthsFitCapabilities ==
    devKind = "mock" => C27_WavelengthsFitCapabilities

C29_OutsideRangeIsClamped ==
    (last.op = "wavelength_to_rgb") =>
        /\ last.arg.wavelength < 380 => last.arg.rgb = WavelengthToRgb(380)
        /\ last.arg.wavelength > 780 => last.arg.rgb = WavelengthToRgb(780)

\* Calls below and above the visible range have been made: this one is the
\* call for the largest wavelength
C29_Witness ==
    /\ last.op = "wavelength_to_rgb"
    /\ last.arg.wavelength = 780 + Above
    /\ last.arg.rgb # WavelengthToRgb(380)

\* The band formula that ends at a boundary
BandBelow(w) ==
    CASE w = 440 -> VioletToBlue(w)
      [] w = 490 -> BlueToCyan(w)
      [] w = 510 -> CyanToGreen(w)
      [] w = 580 -> GreenToYellow(w)
      [] w = 645 -> YellowToOrange(w)

\* C30: at 440, 490, 510, 580 and 645 nm the band that ends there gives the
\* hue, chroma and luminance of the band that begins there; both falloff
\* formulas give 1 where they stop applying, at 420 and at 700 nm; the hue is
\* 285 degrees at 380 nm and 15 degrees at 780 nm, and it never increases
\* from one wavelength to a larger one
C30_RampContinuousHueMonotonic ==
    [][(last'.op = "wavelength_to_rgb") =>
          LET w == ClampWavelength(last'.arg.wavelength) IN
          /\ w \in {440, 490, 510, 580, 645} => BandBelow(w) = last'.arg.ramp
          /\ w = 420 => FalloffLow(w) = 1000 /\ last'.arg.intensity = 1000
          /\ w = 700 => FalloffHigh(w) = 1000 /\ last'.arg.intensity = 1000
          /\ w = 380 => last'.arg.ramp.hue = 285000
          /\ w = 780 => last'.arg.ramp.hue = 15000
          /\ (last.op = "wavelength_to_rgb"
                 /\ last.arg.wavelength <= last'.arg.wavelength)
                => last'.arg.ramp.hue <= last.arg.ramp.hue]_vars

\* A call for 440 nm, where the first band ends and the second begins
C30_Witness ==
    /\ last.op = "wavelength_to_rgb"
    /\ last.arg.wavelength = 440
    /\ last.arg.ramp = Hcl(260000, 100000, 55000)

\* C31: every request a cycle issues schedules one save; when the save
\* fires it appends the current result, if there is one, to the history,
\* whether or not the request it was scheduled after has been delivered; with
\* no current result it appends nothing
C31_SaveAppendsCurrentResult ==
    /\ [][(last'.op \in {"cycle", "start_auto_repeat"}) =>
             IF last'.arg = {}
             THEN UNCHANGED <<pendingSaves, nextReq>>
             ELSE /\ nextReq' = nextReq + 1
                  /\ pendingSaves' = Append(pendingSaves, nextReq')]_vars
    /\ [][(last'.op = "auto_save") =>
             /\ pendingSaves # <<>>
             /\ last'.req = Head(pendingSaves)
             /\ pendingSaves' = Tail(pendingSaves)
             /\ IF current_result = NoResult
                THEN UNCHANGED dataVars
                ELSE /\ measurement_history' = Append(measurement_history, current_result)
                     /\ Len(saved_labels') = Len(saved_labels) + 1]_vars

\* The save scheduled after the second request has fired while that request
\* is still outstanding, and has appended the result of the first
C31_Witness ==
    /\ last.op = "auto_save"
    /\ last.req = 2
    /\ Outstanding(2)
    /\ Len(measurement_history) = 1
    /\ measurement_history[1].req = 1

\* C31 as stated: the save appends whatever current_result holds, also when
\* it holds no result
C31_SaveAlwaysAppends ==
    [][(last'.op = "auto_save") =>
          measurement_history' = Append(measurement_history, current_result)]_vars

\* C32: the background the first update captures does not contain the data
\* line, and no background that an update restores contains one
C32_BackgroundHasNoDataLine ==
    [][(last'.op = "update_spectrum") =>
          /\ (~main_line /\ main_line') => ~backgroundLine'
          /\ (\E i \in 1..Len(plotLog') : plotLog'[i] = "restore_region")
                => ~backgroundLine]_vars

\* C33: when _process_queue has returned, whatever it dequeued and whatever
\* became of its handlers, the next tick is scheduled
C33_PollingAlwaysRearmed ==
    [][(last'.op \in {"tick", "dialog_close"} /\ ctl' = "idle") => pollArmed']_vars

\* What follows when it is not: an outcome that stays in the queue, with
\* is_measuring set, and no tick to come
PostedOutcomeCanBeDequeued ==
    (measurement_queue # <<>> /\ ctl = "idle") => pollArmed

\* C34: while a worker is inside device.measure the control thread calls
\* neither disconnect nor connect on the device
C34_NoDeviceCallDuringMeasure ==
    [][(last'.op \in {"disconnect", "connect_begin", "connect_true", "connect_false"}) =>
          \A r \in Requests : workers[r].pc \notin {"set_measuring", "acquiring"}]_vars

\* C35: when the control thread is in no device call and no worker thread is
\* alive, a status of CONNECTED means that is_connected() is true
C35_ConnectedStatusMeansConnected ==
    (ctl = "idle" /\ \A r \in Requests : ~Running(r))
       => (status = CONNECTED => connected)

\* C36: an abort with nothing outstanding changes neither the abort flag nor
\* any worker nor the device; an abort is taken exactly when a request is
\* outstanding; every accepted request starts with the flag false; and a
\* request is posted as Aborted only if an abort was made while its own
\* worker was alive and before it called measure
C36_AbortStaysWithItsRequest ==
    /\ [][(last'.op = "abort_ignored") =>
             /\ \A r \in Requests : ~Outstanding(r)
             /\ UNCHANGED <<abort_requested, workers, devVars>>]_vars
    /\ [][(last'.op = "abort") => \E r \in Requests : Outstanding(r)]_vars
    /\ [][(nextReq' # nextReq) => ~abort_requested']_vars
    /\ [][\A r \in Requests :
             (workers'[r].out = "aborted" /\ workers[r].out # "aborted")
                => workers[r].abortEarly]_vars

\* An abort made after the worker of the only request has posted: the flag
\* is set while the outcome waits in the queue
C36_Witness ==
    /\ last.op = "abort"
    /\ abort_requested
    /\ measurement_queue # <<>>
    /\ nextReq < MaxRequests
    /\ \A r \in Requests : ~Running(r)

\* C37: the outcome queue never holds more than one entry
C37_QueueHoldsAtMostOne == Len(measurement_queue) <= 1

\* While the error dialog of the first outcome is open, a cycle has started
\* the second request and its worker has posted
C37_Witness ==
    /\ ctl = "dialog"
    /\ Len(measurement_queue) = 1
    /\ measurement_queue[1].req = 2
    /\ is_measuring

\* The success outcomes among those a pass of the loop has dequeued
IsSuccess(o) == o.kind = "success"

\* C38: a pass of the polling loop leaves the history and the labels as they
\* were; it leaves current_result as it was when it dequeued no success
\* outcome, and otherwise sets it to the result of the last one
C38_OnlySuccessChangesCurrentResult ==
    [][(last'.op \in {"tick", "dialog_close"}) =>
          LET succ == SelectSeq(handled', IsSuccess) IN
          /\ UNCHANGED dataVars
          /\ current_result' = IF succ = <<>> THEN current_result
                               ELSE succ[Len(succ)].result]_vars

\* A tick has dequeued an error outcome while an earlier result is current
\* and saved
C38_Witness ==
    /\ last.op = "tick"
    /\ Len(handled) = 1
    /\ handled[1].kind = "error"
    /\ current_result # NoResult
    /\ measurement_history = <<current_result>>

\* C39: after configure the worker goes on to the abort test and to measure
\* unless configure raised; and a request that ends in Error without measure
\* having been called is one whose configure raised
C39_ConfigureResultIgnored ==
    /\ [][(last'.op = "configure") =>
             workers'[last'.req].pc =
                IF workers'[last'.req].exc = "e_configure" THEN "returned"
                ELSE "check_abort"]_vars
    /\ [][(last'.op = "post" /\ workers'[last'.req].out = "error"
              /\ ~workers[last'.req].called)
             => workers[last'.req].exc = "e_configure"]_vars

\* The configure of the only request failed and returned False, and the
\* request was posted as Success
C39_Witness ==
    /\ last.op = "post"
    /\ nextReq = 1
    /\ workers[1].out = "success"
    /\ workers[1].called
    /\ last_error = "Configure failed: e"

\* C40: measurement_history and saved_labels always have the same length and
\* the i-th label is the one made for the i-th saved result, whatever saves,
\* auto-saves, deletions and clearings came before; and a save or auto-save
\* that finds no current result changes neither list.
C40_LabelsFollowHistory ==
    /\ [](/\ Len(saved_labels) = Len(measurement_history)
          /\ \A i \in 1..Len(measurement_history) :
                saved_labels[i].of = measurement_history[i].req)
    /\ [][(last'.op \in {"save", "auto_save"} /\ current_result = NoResult)
             => UNCHANGED <<measurement_history, saved_labels>>]_vars

\* Three results were saved, two of them by different requests, and the
\* first and the third were deleted together: the second is left with the
\* label typed for it
C40_Witness ==
    /\ last.op = "answer_delete"
    /\ last.arg.yes
    /\ last.arg.rows = {1, 3}
    /\ Len(measurement_history) = 1
    /\ measurement_history[1].req = 2
    /\ saved_labels = <<Label("a", 2, measurement_history[1])>>

====
